---- MODULE Spec2Model ----
(***************************************************************************)
(* A model of the mockup-storage engine: the B-tree ordered map, the       *)
(* secondary indexes and index manager, the collection engine's add and    *)
(* remove, and the storage manager's auto-commit cycle.                    *)
(*                                                                         *)
(* The specifications of the module share its variables:                   *)
(*   SpecBTree      one BTree driven by insert / delete / range            *)
(*   Spec           one MockCollection with a unique and a non-unique index*)
(*   SpecIndexes    that collection with createIndex and dropIndex         *)
(*   SpecStorage    one MockStorage with auto-commit on, two collections   *)
(*   SpecManual     that manager from construction on, with commit(name)   *)
(*   SpecRelation   one Relation, its handleDelete and the target remove   *)
(*   SpecRoundTrip  commitAll(), a fresh manager's initialize(), the views *)
(*   SpecRegistry   collection(name) and the relations it defines          *)
(*   SpecJoin       innerJoin / leftJoin beside writers of the target      *)
(*   SpecLock       callers of one MockCollection queued on its mutex      *)
(*   SpecLockFair   SpecLock with the event loop running every waiter      *)
(*   SpecEngine     one MockCollection with its onModify callbacks         *)
(*   SpecBTreeMap   a BTree of any accepted order beside an ordered map    *)
(*   SpecCollectionRace  callers of collection(name) at the same time      *)
(*   SpecAutoIndex  a new collection while its declared indexes are made   *)
(*   SpecTwin       two collections that differ in hidden values only      *)
(* Keys, field values and ids are small naturals; their natural order      *)
(* stands for the order the default comparator gives strings and numbers.  *)
(***************************************************************************)
EXTENDS Integers, Sequences, FiniteSets, TLC

VARIABLES
    tree,            \* SpecBTree: the BTree under test, [root, size]
    rangeOut,        \* SpecBTree: the last range(min, max) call and its result
    btree,           \* Spec: MockCollection.btree, id -> record
    indexes,         \* Spec: IndexManager.indexes, in Map insertion order
    lastOp,          \* Spec: the last collection call and its outcome
    idCollision,     \* Spec: TRUE once uuid() returned an id already stored
    addRejected,     \* Spec: TRUE once an add failed with a unique violation
    mem,             \* SpecStorage: per collection, the revision of its records
    pendingCommit,   \* SpecStorage: MockStorage.pendingCommit
    timers,          \* SpecStorage: the outstanding setTimeout timers
    autoCommitTimer, \* SpecStorage: MockStorage.autoCommitTimer (a handle)
    commits,         \* SpecStorage: the commitAll() calls in flight
    staged,          \* SpecStorage: DatabaseFile.collections
    disk,            \* SpecStorage: the content of the database file
    hist,            \* SpecStorage: what an observer of the run has seen
    ix,              \* SpecIndexes: the calls made and what the last one showed
    rel,             \* SpecRelation: the relation, its collections, handleDelete
    man,             \* SpecManual: the manager's configuration and commit calls
    rt,              \* SpecRoundTrip: the file and the manager that reopens it
    reg,             \* SpecRegistry: the manager's collections and relations
    jn,              \* SpecJoin: a relation's collections and the join in flight
    lk,              \* SpecLock: one collection, its mutex and its callers
    eng,             \* SpecEngine: one collection, its callbacks, the last call
    bm,              \* SpecBTreeMap: a BTree of some order beside an ordered map
    cr,              \* SpecCollectionRace: the manager and callers of collection()
    ai,              \* SpecAutoIndex: a new collection and its index creation
    tw               \* SpecTwin: two collections that differ in hidden values

btVars == <<tree, rangeOut>>
colVars == <<btree, indexes, lastOp, idCollision, addRejected>>
stVars == <<mem, pendingCommit, timers, autoCommitTimer, commits, staged,
            disk, hist>>
xVars == <<ix, rel, man, rt>>
yVars == <<reg, jn, lk>>
zVars == <<eng, bm, cr, ai, tw>>
vars == <<tree, rangeOut, btree, indexes, lastOp, idCollision, addRejected, mem,
          pendingCommit, timers, autoCommitTimer, commits, staged, disk, hist,
          ix, rel, man, rt, reg, jn, lk, eng, bm, cr, ai, tw>>

\* A nullable result (V | null) is a sequence: <<>> for null, <<v>> for v.
Null == <<>>
Some(v) == <<v>>
IsNull(o) == o = <<>>
Get(o) == o[1]

(***************************************************************************)
(* Array helpers, with the 0-based positions the source uses.              *)
(***************************************************************************)
At(s, i) == s[i + 1]

\* Array.prototype.splice(i, 0, x)
SpliceIn(s, i, x) == SubSeq(s, 1, i) \o <<x>> \o SubSeq(s, i + 1, Len(s))

\* Array.prototype.splice(i, 1)
SpliceOut(s, i) == SubSeq(s, 1, i) \o SubSeq(s, i + 2, Len(s))

\* s[i] = x
SetAt(s, i, x) == [s EXCEPT ![i + 1] = x]

(***************************************************************************)
(* BTree (src/unnamed/part_013).  A node is [entries, children, isLeaf];   *)
(* the parent back-pointer is written but never read and is left out.      *)
(***************************************************************************)
comparator(a, b) == IF a < b THEN -1 ELSE IF a > b THEN 1 ELSE 0

BTreeNode(isLeaf) == [entries |-> <<>>, children |-> <<>>, isLeaf |-> isLeaf]

BTreeNew == [root |-> BTreeNode(TRUE), size |-> 0]

\* while (i >= 0 && comparator(key, entries[i].key) < 0) i--
RECURSIVE ScanDown(_, _, _)
ScanDown(entries, key, i) ==
    IF i >= 0 /\ comparator(key, At(entries, i).key) < 0
    THEN ScanDown(entries, key, i - 1)
    ELSE i

\* while (i < entries.length && comparator(key, entries[i].key) > 0) i++
RECURSIVE ScanUp(_, _, _)
ScanUp(entries, key, i) ==
    IF i < Len(entries) /\ comparator(key, At(entries, i).key) > 0
    THEN ScanUp(entries, key, i + 1)
    ELSE i

splitChild(parent, index, order) ==
    LET fullChild == At(parent.children, index)
        midIndex == (order - 1) \div 2
        n == Len(fullChild.entries)
        newEntries == SubSeq(fullChild.entries, midIndex + 2, n)
        kept == SubSeq(fullChild.entries, 1, IF n < midIndex + 1 THEN n ELSE midIndex + 1)
        midEntry == kept[Len(kept)]
        leftEntries == SubSeq(kept, 1, Len(kept) - 1)
        c == Len(fullChild.children)
        newChildren == IF fullChild.isLeaf THEN <<>>
                       ELSE SubSeq(fullChild.children, midIndex + 2, c)
        leftChildren == IF fullChild.isLeaf THEN fullChild.children
                        ELSE SubSeq(fullChild.children, 1,
                                    IF c < midIndex + 1 THEN c ELSE midIndex + 1)
        left == [entries |-> leftEntries, children |-> leftChildren,
                 isLeaf |-> fullChild.isLeaf]
        newChild == [entries |-> newEntries, children |-> newChildren,
                     isLeaf |-> fullChild.isLeaf]
    IN  [parent EXCEPT
            !.entries = SpliceIn(parent.entries, index, midEntry),
            !.children = SpliceIn(SetAt(parent.children, index, left),
                                  index + 1, newChild)]

RECURSIVE insertNonFull(_, _, _, _)
insertNonFull(node, key, value, order) ==
    LET i == ScanDown(node.entries, key, Len(node.entries) - 1)
    IN  IF node.isLeaf
        THEN [node EXCEPT !.entries =
                  SpliceIn(node.entries, i + 1, [key |-> key, value |-> value])]
        ELSE LET c == i + 1
                 full == Len(At(node.children, c).entries) = order - 1
                 node2 == IF full THEN splitChild(node, c, order) ELSE node
                 c2 == IF full /\ comparator(key, At(node2.entries, c).key) > 0
                       THEN c + 1 ELSE c
             IN  [node2 EXCEPT !.children =
                      SetAt(node2.children, c2,
                            insertNonFull(At(node2.children, c2), key, value, order))]

insert(t, key, value, order) ==
    LET root == t.root
        newRoot == splitChild([entries |-> <<>>, children |-> <<root>>,
                               isLeaf |-> FALSE], 0, order)
    IN  [root |-> IF Len(root.entries) = order - 1
                  THEN insertNonFull(newRoot, key, value, order)
                  ELSE insertNonFull(root, key, value, order),
         size |-> t.size + 1]

RECURSIVE searchNode(_, _)
searchNode(node, key) ==
    LET i == ScanUp(node.entries, key, 0)
    IN  IF i < Len(node.entries) /\ comparator(key, At(node.entries, i).key) = 0
        THEN Some(At(node.entries, i).value)
        ELSE IF node.isLeaf THEN Null
        ELSE searchNode(At(node.children, i), key)

search(t, key) == searchNode(t.root, key)

\* Math.ceil(order / 2) - 1
minEntries(order) == (order + 1) \div 2 - 1

\* What an array gives at an index it does not have.
Undefined == [undefined |-> TRUE]

RECURSIVE getPredecessorFrom(_)
getPredecessorFrom(current) ==
    IF current.isLeaf
    THEN IF current.entries = <<>> THEN Undefined
         ELSE current.entries[Len(current.entries)]
    ELSE getPredecessorFrom(current.children[Len(current.children)])

getPredecessor(node, index) == getPredecessorFrom(At(node.children, index))

RECURSIVE getSuccessorFrom(_)
getSuccessorFrom(current) ==
    IF current.isLeaf
    THEN IF current.entries = <<>> THEN Undefined ELSE current.entries[1]
    ELSE getSuccessorFrom(current.children[1])

getSuccessor(node, index) == getSuccessorFrom(At(node.children, index + 1))

borrowFromPrev(parent, childIndex) ==
    LET child == At(parent.children, childIndex)
        sibling == At(parent.children, childIndex - 1)
        ns == Len(sibling.entries)
        cs == Len(sibling.children)
        child2 == [child EXCEPT
                      !.entries = <<At(parent.entries, childIndex - 1)>> \o @,
                      !.children = IF child.isLeaf THEN @
                                   ELSE <<sibling.children[cs]>> \o @]
        sibling2 == [sibling EXCEPT
                        !.entries = SubSeq(@, 1, ns - 1),
                        !.children = IF child.isLeaf THEN @
                                     ELSE SubSeq(@, 1, cs - 1)]
    IN  [parent EXCEPT
            !.entries = SetAt(@, childIndex - 1, sibling.entries[ns]),
            !.children = SetAt(SetAt(@, childIndex, child2),
                               childIndex - 1, sibling2)]

borrowFromNext(parent, childIndex) ==
    LET child == At(parent.children, childIndex)
        sibling == At(parent.children, childIndex + 1)
        child2 == [child EXCEPT
                      !.entries = @ \o <<At(parent.entries, childIndex)>>,
                      !.children = IF child.isLeaf THEN @
                                   ELSE @ \o <<sibling.children[1]>>]
        sibling2 == [sibling EXCEPT
                        !.entries = Tail(@),
                        !.children = IF child.isLeaf THEN @ ELSE Tail(@)]
    IN  [parent EXCEPT
            !.entries = SetAt(@, childIndex, sibling.entries[1]),
            !.children = SetAt(SetAt(@, childIndex, child2),
                               childIndex + 1, sibling2)]

mergeChildren(parent, index) ==
    LET leftChild == At(parent.children, index)
        rightChild == At(parent.children, index + 1)
        merged == [leftChild EXCEPT
                      !.entries = @ \o <<At(parent.entries, index)>>
                                    \o rightChild.entries,
                      !.children = IF leftChild.isLeaf THEN @
                                   ELSE @ \o rightChild.children]
    IN  [parent EXCEPT
            !.entries = SpliceOut(@, index),
            !.children = SpliceOut(SetAt(@, index, merged), index + 1)]

fillChild(parent, index, order) ==
    IF index > 0
       /\ Len(At(parent.children, index - 1).entries) > minEntries(order)
    THEN borrowFromPrev(parent, index)
    ELSE IF index < Len(parent.children) - 1
            /\ Len(At(parent.children, index + 1).entries) > minEntries(order)
    THEN borrowFromNext(parent, index)
    ELSE IF index < Len(parent.children) - 1
    THEN mergeChildren(parent, index)
    ELSE mergeChildren(parent, index - 1)

\* fillChild ends in mergeChildren(parent, index - 1) with index 0 when the
\* child has no sibling: parent.children[-1] is undefined, and reading its
\* `.entries` throws a TypeError before anything is changed.
fillChildThrows(parent, index, order) ==
    /\ ~(index > 0
          /\ Len(At(parent.children, index - 1).entries) > minEntries(order))
    /\ ~(index < Len(parent.children) - 1)
    /\ index - 1 < 0

\* deleteKey and deleteFromInternal give [node, deleted, threw]: the node
\* as the call leaves it, the boolean it returns, and whether it ended in
\* the TypeError of reading `.key` of undefined.
RECURSIVE deleteKey(_, _, _)
RECURSIVE deleteFromInternal(_, _, _)
deleteFromInternal(node, index, order) ==
    LET key == At(node.entries, index).key
    IN  IF Len(At(node.children, index).entries) > minEntries(order)
        THEN LET predecessor == getPredecessor(node, index)
                 r == deleteKey(At(node.children, index), predecessor.key, order)
             IN  IF predecessor = Undefined
                 THEN [node |-> [node EXCEPT
                                   !.entries = SetAt(@, index, predecessor)],
                       deleted |-> FALSE, threw |-> TRUE]
                 ELSE [node |-> [node EXCEPT
                                   !.entries = SetAt(@, index, predecessor),
                                   !.children = SetAt(@, index, r.node)],
                       deleted |-> r.deleted, threw |-> r.threw]
        ELSE IF Len(At(node.children, index + 1).entries) > minEntries(order)
        THEN LET successor == getSuccessor(node, index)
                 r == deleteKey(At(node.children, index + 1), successor.key, order)
             IN  IF successor = Undefined
                 THEN [node |-> [node EXCEPT
                                   !.entries = SetAt(@, index, successor)],
                       deleted |-> FALSE, threw |-> TRUE]
                 ELSE [node |-> [node EXCEPT
                                   !.entries = SetAt(@, index, successor),
                                   !.children = SetAt(@, index + 1, r.node)],
                       deleted |-> r.deleted, threw |-> r.threw]
        ELSE LET node2 == mergeChildren(node, index)
                 r == deleteKey(At(node2.children, index), key, order)
             IN  [node |-> [node2 EXCEPT !.children = SetAt(@, index, r.node)],
                  deleted |-> r.deleted, threw |-> r.threw]

deleteKey(node, key, order) ==
    LET i == ScanUp(node.entries, key, 0)
    IN  IF i < Len(node.entries) /\ comparator(key, At(node.entries, i).key) = 0
        THEN IF node.isLeaf
             THEN [node |-> [node EXCEPT !.entries = SpliceOut(@, i)],
                   deleted |-> TRUE, threw |-> FALSE]
             ELSE deleteFromInternal(node, i, order)
        ELSE IF ~node.isLeaf
                /\ Len(At(node.children, i).entries) <= minEntries(order)
                /\ fillChildThrows(node, i, order)
        THEN [node |-> node, deleted |-> FALSE, threw |-> TRUE]
        ELSE IF ~node.isLeaf
        THEN LET node2 == IF Len(At(node.children, i).entries) <= minEntries(order)
                          THEN fillChild(node, i, order) ELSE node
                 j == IF i > Len(node2.entries) THEN i - 1 ELSE i
                 r == deleteKey(At(node2.children, j), key, order)
             IN  [node |-> [node2 EXCEPT !.children = SetAt(@, j, r.node)],
                  deleted |-> r.deleted, threw |-> r.threw]
        ELSE [node |-> node, deleted |-> FALSE, threw |-> FALSE]

\* BTree.delete gives [tree, deleted, threw].
delete(t, key, order) ==
    LET r == deleteKey(t.root, key, order)
        shrink == r.deleted /\ Len(r.node.entries) = 0 /\ ~r.node.isLeaf
    IN  [tree |-> [root |-> IF shrink THEN r.node.children[1] ELSE r.node,
                   size |-> IF r.deleted THEN t.size - 1 ELSE t.size],
         deleted |-> r.deleted, threw |-> r.threw]

RECURSIVE traverse(_)
RECURSIVE traverseFrom(_, _)
traverseFrom(node, i) ==
    IF i < Len(node.entries)
    THEN (IF node.isLeaf THEN <<>> ELSE traverse(At(node.children, i)))
         \o <<At(node.entries, i)>> \o traverseFrom(node, i + 1)
    ELSE IF node.isLeaf THEN <<>> ELSE traverse(At(node.children, i))

traverse(node) == traverseFrom(node, 0)

toArray(t) == traverse(t.root)

\* rangeLoop is the collecting while-loop of rangeSearch from position i:
\* [out, i], what it appends and the position it stops at.
RECURSIVE rangeSearch(_, _, _)
RECURSIVE rangeLoop(_, _, _, _)
rangeLoop(node, min, max, i) ==
    IF i < Len(node.entries)
    THEN LET sub == IF node.isLeaf THEN <<>>
                    ELSE rangeSearch(At(node.children, i), min, max)
         IN  IF comparator(At(node.entries, i).key, max) <= 0
             THEN LET rest == rangeLoop(node, min, max, i + 1)
                  IN  [out |-> sub \o <<At(node.entries, i)>> \o rest.out,
                       i |-> rest.i]
             ELSE [out |-> sub, i |-> i]
    ELSE [out |-> <<>>, i |-> i]

rangeSearch(node, min, max) ==
    LET loop == rangeLoop(node, min, max, ScanUp(node.entries, min, 0))
    IN  IF ~node.isLeaf /\ loop.i < Len(node.children)
        THEN loop.out \o rangeSearch(At(node.children, loop.i), min, max)
        ELSE loop.out

range(t, min, max) == rangeSearch(t.root, min, max)

clear(t) == BTreeNew

(***************************************************************************)
(* SpecBTree: one BTree of order TreeOrder, driven by its public methods.  *)
(***************************************************************************)
TreeOrder == 4     \* the order passed to the constructor (at least 3)
MaxKey == 5        \* keys are 1..MaxKey
MaxEntries == 5    \* inserts are offered while the tree holds fewer entries

Keys == 1..MaxKey

NoRange == [called |-> FALSE, min |-> 1, max |-> 1, result |-> <<>>]

\* The collections of the storage manager, in the order of its Map.
Cols == <<"users", "posts">>
Collections == {Cols[i] : i \in DOMAIN Cols}

QuietTicks == 2   \* the 100 ms of setTimeout(..., 100), in ticks

NoFire == [fired |-> FALSE, sinceFirst |-> 0, sinceLast |-> 0, mods |-> 0]

ColIdle ==
    /\ btree = BTreeNew
    /\ indexes = <<>>
    /\ lastOp = [op |-> "none", outcome |-> "none"]
    /\ idCollision = FALSE
    /\ addRejected = FALSE

BTreeIdle ==
    /\ tree = BTreeNew
    /\ rangeOut = NoRange

\* A storage manager whose collections are instantiated and empty, as is
\* the file it loaded them from.
StIdle ==
    /\ mem = [c \in Collections |-> 0]
    /\ pendingCommit = FALSE
    /\ timers = {}
    /\ autoCommitTimer = Null
    /\ commits = <<>>
    /\ staged = [c \in Collections |-> 0]
    /\ disk = [c \in Collections |-> 0]
    /\ hist = [sinceFirst |-> 0, sinceLast |-> 0, windowMods |-> 0,
               lastFire |-> NoFire, ioFailed |-> FALSE,
               modInFlight |-> FALSE]

\* The components the other specifications drive are absent.
XIdle ==
    /\ ix = Null
    /\ rel = Null
    /\ man = Null
    /\ rt = Null

YIdle ==
    /\ reg = Null
    /\ jn = Null
    /\ lk = Null

ZIdle ==
    /\ eng = Null
    /\ bm = Null
    /\ cr = Null
    /\ ai = Null
    /\ tw = Null

InitBTree ==
    /\ BTreeIdle
    /\ ColIdle
    /\ StIdle
    /\ XIdle
    /\ YIdle
    /\ ZIdle

\* ValueOf(k) is the value stored with key k (as an index stores a record id
\* with a field value); an entry is told from the others by its key.
ValueOf(k) == k

TreeInsert ==
    /\ tree.size < MaxEntries
    /\ \E k \in Keys :
          tree' = insert(tree, k, ValueOf(k), TreeOrder)
    /\ rangeOut' = NoRange
    /\ UNCHANGED <<colVars, stVars, xVars, yVars, zVars>>

TreeDelete ==
    /\ \E k \in Keys : tree' = delete(tree, k, TreeOrder).tree
    /\ rangeOut' = NoRange
    /\ UNCHANGED <<colVars, stVars, xVars, yVars, zVars>>

TreeRange ==
    /\ \E lo \in Keys, hi \in Keys :
          rangeOut' = [called |-> TRUE, min |-> lo, max |-> hi,
                       result |-> range(tree, lo, hi)]
    /\ UNCHANGED <<tree, colVars, stVars, xVars, yVars, zVars>>

NextBTree == TreeInsert \/ TreeDelete \/ TreeRange

SpecBTree == InitBTree /\ [][NextBTree]_vars

\* How many entries of the subtree under node carry key k.
RECURSIVE CountKey(_, _)
RECURSIVE CountKeyIn(_, _, _)
CountKeyIn(children, k, n) ==
    IF n = 0 THEN 0
    ELSE CountKey(children[n], k) + CountKeyIn(children, k, n - 1)

CountKey(node, k) ==
    Cardinality({i \in DOMAIN node.entries : node.entries[i].key = k})
    + CountKeyIn(node.children, k, Len(node.children))

Ascending(es) == \A i \in 1..(Len(es) - 1) : es[i].key <= es[i + 1].key

DistinctKeys == \A k \in Keys : CountKey(tree.root, k) <= 1

\* C5: range(min, max) returns each entry whose key lies in [min, max]
\* exactly once and no other entry, in ascending key order, whatever the
\* shape of the tree (a single leaf or a tree with internal nodes).  It is
\* stated here for the trees that hold each key once (a unique index, the
\* primary map), which is the least the claim says.
C5_RangeExactlyOnce ==
    (rangeOut.called /\ DistinctKeys) =>
        /\ Ascending(rangeOut.result)
        /\ \A i \in DOMAIN rangeOut.result :
              /\ rangeOut.min <= rangeOut.result[i].key
              /\ rangeOut.result[i].key <= rangeOut.max
        /\ \A k \in rangeOut.min..rangeOut.max :
              Cardinality({i \in DOMAIN rangeOut.result :
                              rangeOut.result[i].key = k})
                  = CountKey(tree.root, k)

(***************************************************************************)
(* Index and IndexManager (src/src/lib/index.ts).  An index is             *)
(* [name, field, unique, btree, uniqueMap]; uniqueMap is the Map from      *)
(* value to id that a unique index keeps, a function on the values it      *)
(* holds.  A record view is [id, data], data a function on the fields the  *)
(* record assigns; a field outside DOMAIN data reads as undefined.         *)
(***************************************************************************)
IndexOrder == 32     \* new BTree(32) in the Index constructor
PrimaryOrder == 64   \* new BTree(64) in the MockCollection constructor

Index(config) ==
    [name |-> config.name, field |-> config.field, unique |-> config.unique,
     btree |-> BTreeNew, uniqueMap |-> [v \in {} |-> 0]]

MapSet(m, k, v) == [x \in DOMAIN m \cup {k} |-> IF x = k THEN v ELSE m[x]]
MapDelete(m, k) == [x \in DOMAIN m \ {k} |-> m[x]]

\* Index.add gives [index, threw].
IndexAdd(index, record) ==
    IF index.field \notin DOMAIN record.data
    THEN [index |-> index, threw |-> FALSE]
    ELSE LET fieldValue == record.data[index.field]
         IN  IF index.unique /\ fieldValue \in DOMAIN index.uniqueMap
             THEN [index |-> index, threw |-> TRUE]
             ELSE [index |->
                      [index EXCEPT
                          !.uniqueMap = IF index.unique
                                        THEN MapSet(@, fieldValue, record.id)
                                        ELSE @,
                          !.btree = insert(@, fieldValue, record.id, IndexOrder)],
                   threw |-> FALSE]

IndexRemove(index, record) ==
    IF index.field \notin DOMAIN record.data
    THEN index
    ELSE LET fieldValue == record.data[index.field]
         IN  [index EXCEPT
                 !.btree = delete(@, fieldValue, IndexOrder).tree,
                 !.uniqueMap = IF index.unique THEN MapDelete(@, fieldValue)
                               ELSE @]

IndexSearch(index, value) == search(index.btree, value)

removeFromIndexes(idxs, record) ==
    [i \in DOMAIN idxs |-> IndexRemove(idxs[i], record)]

\* addToIndexes gives [indexes, threw]; addToIndexesFrom is its loop from
\* the i-th index on.
RECURSIVE addToIndexesFrom(_, _, _)
addToIndexesFrom(idxs, record, i) ==
    IF i > Len(idxs)
    THEN [indexes |-> idxs, threw |-> FALSE]
    ELSE LET r == IndexAdd(idxs[i], record)
         IN  IF r.threw
             THEN [indexes |-> removeFromIndexes(idxs, record), threw |-> TRUE]
             ELSE addToIndexesFrom([idxs EXCEPT ![i] = r.index], record, i + 1)

addToIndexes(idxs, record) == addToIndexesFrom(idxs, record, 1)

\* getIndexByField: the first index on the field, as an optional position.
RECURSIVE getIndexByFieldFrom(_, _, _)
getIndexByFieldFrom(idxs, field, i) ==
    IF i > Len(idxs) THEN Null
    ELSE IF idxs[i].field = field THEN Some(i)
    ELSE getIndexByFieldFrom(idxs, field, i + 1)

getIndexByField(idxs, field) == getIndexByFieldFrom(idxs, field, 1)

(***************************************************************************)
(* MockCollection (src/src/lib/collection.ts, the B-tree backed class).    *)
(* The schema has the fields email (unique) and tag (indexed).             *)
(***************************************************************************)
MaxId == 2        \* uuid() draws from 1..MaxId
MaxVal == 2       \* email values are 1..MaxVal
MaxTag == 1       \* tag values are 1..MaxTag
MaxRecords == 2   \* add is offered while the primary map holds fewer entries

Ids == 1..MaxId
Vals == 1..MaxVal
Tags == 1..MaxTag
Fields == {"email", "tag"}
ValuesOf(f) == IF f = "email" THEN Vals ELSE Tags

\* The schemas tried: the same two fields in either declaration order.
Schemas ==
    { << [field |-> "email", unique |-> TRUE],
         [field |-> "tag", unique |-> FALSE] >>,
      << [field |-> "tag", unique |-> FALSE],
         [field |-> "email", unique |-> TRUE] >> }

\* extractIndexConfigs: one index per indexed or unique field, in schema order.
extractIndexConfigs(schema) ==
    [i \in DOMAIN schema |->
        [name |-> schema[i].field \o "_idx", field |-> schema[i].field,
         unique |-> schema[i].unique]]

initializeAutoIndexes(schema) ==
    [i \in DOMAIN schema |-> Index(extractIndexConfigs(schema)[i])]

\* MockRecord.validateRecord: every schema field holds a value of its type.
validateRecord(data) == \A f \in Fields : f \in DOMAIN data

\* The values add() may be called with: any assignment of some of the fields.
Inputs ==
    UNION {{d \in [fs -> Vals \cup Tags] : \A f \in fs : d[f] \in ValuesOf(f)} :
              fs \in SUBSET Fields}

Init ==
    /\ btree = BTreeNew
    /\ \E schema \in Schemas : indexes = initializeAutoIndexes(schema)
    /\ lastOp = [op |-> "none", outcome |-> "none"]
    /\ idCollision = FALSE
    /\ addRejected = FALSE
    /\ BTreeIdle
    /\ StIdle
    /\ XIdle
    /\ YIdle
    /\ ZIdle

\* Mutant of addIn: the record replaces a stored record of the same id, as
\* Map.set would.
addIn_ReplacesEqualId(bt, idxs, id, value) ==
    IF ~validateRecord(value)
    THEN [btree |-> bt, indexes |-> idxs, outcome |-> "invalid"]
    ELSE LET view == [id |-> id, data |-> value]
             r == addToIndexes(idxs, view)
         IN  IF r.threw
             THEN [btree |-> bt, indexes |-> r.indexes,
                   outcome |-> "unique_violation"]
             ELSE [btree |-> insert(delete(bt, id, PrimaryOrder).tree, id, view,
                                    PrimaryOrder),
                   indexes |-> r.indexes, outcome |-> "ok"]

\* MockCollection.add(value) on the primary map bt and the indexes idxs,
\* with id the identifier uuid() returns: [btree, indexes, outcome].
addIn(bt, idxs, id, value) ==
    IF ~validateRecord(value)
    THEN [btree |-> bt, indexes |-> idxs, outcome |-> "invalid"]
    ELSE LET view == [id |-> id, data |-> value]
             r == addToIndexes(idxs, view)
         IN  IF r.threw
             THEN [btree |-> bt, indexes |-> r.indexes,
                   outcome |-> "unique_violation"]
             ELSE [btree |-> insert(bt, id, view, PrimaryOrder),
                   indexes |-> r.indexes, outcome |-> "ok"]

\* MockCollection.remove(id) on bt and idxs: [btree, indexes, result].
removeIn(bt, idxs, id) ==
    LET record == search(bt, id)
    IN  IF IsNull(record)
        THEN [btree |-> bt, indexes |-> idxs, result |-> FALSE]
        ELSE LET d == delete(bt, id, PrimaryOrder)
             IN  [btree |-> d.tree,
                  indexes |-> IF d.deleted
                              THEN removeFromIndexes(idxs, Get(record))
                              ELSE idxs,
                  result |-> d.deleted]

\* MockCollection.add(value), with id the identifier uuid() returns.
add(id, value) ==
    \E r \in {addIn(btree, indexes, id, value)} :
        /\ btree' = r.btree
        /\ indexes' = r.indexes
        /\ lastOp' = [op |-> "add", outcome |-> r.outcome]
        /\ idCollision' = (idCollision \/ (r.outcome # "invalid"
                                              /\ ~IsNull(search(btree, id))))
        /\ addRejected' = (addRejected \/ r.outcome = "unique_violation")

\* MockCollection.remove(id).
remove(id) ==
    \E r \in {removeIn(btree, indexes, id)} :
        /\ btree' = r.btree
        /\ indexes' = r.indexes
        /\ lastOp' = [op |-> "remove",
                      outcome |-> IF r.result THEN "true" ELSE "false"]
        /\ UNCHANGED <<idCollision, addRejected>>

\* MockCollection.first(callback) with the callback findByField passes:
\* the first stored record, in id order, whose field equals the value.
RECURSIVE firstFrom(_, _, _, _)
firstFrom(entries, field, value, i) ==
    IF i > Len(entries) THEN Null
    ELSE LET view == entries[i].value
         IN  IF field \in DOMAIN view.data /\ view.data[field] = value
             THEN Some(view)
             ELSE firstFrom(entries, field, value, i + 1)

\* Mutant of first: the first stored record, whatever its fields hold.
first_IgnoresCallback(bt, field, value) ==
    IF toArray(bt) = <<>> THEN Null ELSE Some(toArray(bt)[1].value)

first(bt, field, value) == firstFrom(toArray(bt), field, value, 1)

\* findByField on the primary map bt and the indexes idxs: through the
\* first index on the field when there is one, by a scan otherwise.
findByFieldIn(bt, idxs, field, value) ==
    LET index == getIndexByField(idxs, field)
    IN  IF IsNull(index)
        THEN first(bt, field, value)
        ELSE LET id == IndexSearch(idxs[Get(index)], value)
             IN  IF IsNull(id) THEN Null ELSE search(bt, Get(id))

\* MockCollection.findByField(field, value): the record found, or Null.
findByField(field, value) == findByFieldIn(btree, indexes, field, value)

Add ==
    /\ btree.size < MaxRecords
    /\ \E id \in Ids, value \in Inputs : add(id, value)
    /\ UNCHANGED <<btVars, stVars, xVars, yVars, zVars>>

Remove ==
    /\ \E id \in Ids : remove(id)
    /\ UNCHANGED <<btVars, stVars, xVars, yVars, zVars>>

Next == Add \/ Remove

Spec == Init /\ [][Next]_vars

(***************************************************************************)
(* Claims about the collection (specification Spec).                       *)
(***************************************************************************)
\* The stored records, as all() lists them.
Stored == toArray(btree)

Assigns(view, field) == field \in DOMAIN view.data

\* C1: after any sequence of add and remove calls (rejected adds included),
\* no two distinct stored records have the same value in a field covered by
\* a unique index.  Stated for the runs in which uuid() never repeated an id.
C1_UniqueValuesDistinct ==
    ~idCollision =>
        \A k \in DOMAIN indexes :
            indexes[k].unique =>
                \A i, j \in DOMAIN Stored :
                    (/\ i # j
                     /\ Assigns(Stored[i].value, indexes[k].field)
                     /\ Assigns(Stored[j].value, indexes[k].field))
                    => Stored[i].value.data[indexes[k].field]
                           # Stored[j].value.data[indexes[k].field]

\* C2: an add rejected with a unique violation leaves the primary map and
\* every index exactly as they were before the call.
C2_RejectedAddChangesNothing ==
    [][(lastOp'.outcome = "unique_violation" /\ ~idCollision')
           => (btree' = btree /\ indexes' = indexes)]_vars

\* C3: for every stored record r and every index whose field r assigns a
\* value v, the index holds an entry v -> r.id, and findByField(field, v)
\* returns a stored record whose field equals v (r itself when the index is
\* unique).  Stated for the runs in which uuid() never repeated an id and
\* no add was rejected: adds and removes that all succeed.
C3_IndexesFollowRecords ==
    (~idCollision /\ ~addRejected) =>
        \A i \in DOMAIN Stored, k \in DOMAIN indexes :
            LET r == Stored[i].value
                f == indexes[k].field
                es == toArray(indexes[k].btree)
                found == findByField(f, r.data[f])
            IN  Assigns(r, f) =>
                    /\ \E e \in DOMAIN es :
                          es[e].key = r.data[f] /\ es[e].value = r.id
                    /\ ~IsNull(found)
                    /\ Get(found).data[f] = r.data[f]
                    /\ indexes[k].unique => Get(found).id = r.id

\* C4: no two records in a collection ever share an id, also when uuid()
\* returns an id that is already present.
C4_NoTwoRecordsShareAnId ==
    \A i, j \in DOMAIN Stored : i # j => Stored[i].key # Stored[j].key

(***************************************************************************)
(* SpecIndexes: the collection of Spec with createIndex and dropIndex      *)
(* (collection.ts 485-521, index.ts 196-237) and findByRange.  ix is        *)
(* [calls, unique, same, shared]: the number of calls made, the unique     *)
(* flag the last call passed, and what that call showed (see the actions). *)
(***************************************************************************)
MaxCalls == 3   \* SpecIndexes follows the collection for this many calls

\* The names createIndex and dropIndex are called with: one the schema uses
\* and one it does not.
IndexNames == {"tag_idx", "extra_idx"}

\* IndexManager.createIndex gives [indexes, threw].
IndexManager_createIndex(idxs, config) ==
    IF \E i \in DOMAIN idxs : idxs[i].name = config.name
    THEN [indexes |-> idxs, threw |-> TRUE]
    ELSE [indexes |-> Append(idxs, Index(config)), threw |-> FALSE]

\* IndexManager.dropIndex gives [indexes, result].
IndexManager_dropIndex(idxs, name) ==
    [indexes |-> SelectSeq(idxs, LAMBDA x : x.name # name),
     result |-> \E i \in DOMAIN idxs : idxs[i].name = name]

listIndexes(idxs) == [i \in DOMAIN idxs |-> idxs[i].name]

\* The loop of MockCollection.createIndex over the stored records, from the
\* i-th on: a record the index rejects is skipped.
RECURSIVE buildIndex(_, _, _)
buildIndex(index, entries, i) ==
    IF i > Len(entries) THEN index
    ELSE buildIndex(IndexAdd(index, entries[i].value).index, entries, i + 1)

\* MockCollection.createIndex gives [indexes, threw].
createIndex(bt, idxs, config) ==
    LET r == IndexManager_createIndex(idxs, config)
    IN  IF r.threw
        THEN [indexes |-> idxs, threw |-> TRUE]
        ELSE [indexes |-> [r.indexes EXCEPT
                              ![Len(r.indexes)] = buildIndex(@, toArray(bt), 1)],
              threw |-> FALSE]

\* Mutant of dropIndex: the index is looked up by its field, so the first
\* index on the field of the named one is dropped.
dropIndex_ByField(idxs, name) ==
    IF \E i \in DOMAIN idxs : idxs[i].name = name
    THEN LET k == CHOOSE i \in DOMAIN idxs : idxs[i].name = name
             f == Get(getIndexByField(idxs, idxs[k].field))
         IN  [indexes |-> SubSeq(idxs, 1, f - 1) \o SubSeq(idxs, f + 1, Len(idxs)),
              result |-> TRUE]
    ELSE [indexes |-> idxs, result |-> FALSE]

\* MockCollection.dropIndex gives [indexes, result].
dropIndex(idxs, name) == IndexManager_dropIndex(idxs, name)

\* Index.rangeSearch: the ids of the entries range() returns.
IndexRangeSearch(index, min, max) ==
    LET es == range(index.btree, min, max)
    IN  [i \in DOMAIN es |-> es[i].value]

\* The loop of findByRange over the ids: the records found, in that order.
RECURSIVE collectFound(_, _, _)
collectFound(bt, ids, i) ==
    IF i > Len(ids) THEN <<>>
    ELSE LET record == search(bt, ids[i])
         IN  (IF IsNull(record) THEN <<>> ELSE <<Get(record)>>)
                 \o collectFound(bt, ids, i + 1)

\* Mutant of findByRangeIn: without an index it answers from a scan of
\* the records, as findByField does.
findByRangeIn_ScansWithoutIndex(bt, idxs, field, min, max) ==
    LET index == getIndexByField(idxs, field)
        es == toArray(bt)
    IN  IF IsNull(index)
        THEN [threw |-> FALSE,
              results |-> SelectSeq([i \in DOMAIN es |-> es[i].value],
                              LAMBDA v : /\ field \in DOMAIN v.data
                                         /\ v.data[field] >= min
                                         /\ v.data[field] <= max)]
        ELSE [threw |-> FALSE,
              results |-> collectFound(bt,
                              IndexRangeSearch(idxs[Get(index)], min, max), 1)]

\* MockCollection.findByRange gives [threw, results].
findByRangeIn(bt, idxs, field, min, max) ==
    LET index == getIndexByField(idxs, field)
    IN  IF IsNull(index)
        THEN [threw |-> TRUE, results |-> <<>>]
        ELSE [threw |-> FALSE,
              results |-> collectFound(bt,
                              IndexRangeSearch(idxs[Get(index)], min, max), 1)]

\* What a caller can observe of a collection: listIndexes, the records, and
\* findByField and findByRange on every field.
Observe(bt, idxs) ==
    [listIndexes |-> listIndexes(idxs),
     records |-> toArray(bt),
     findByField |-> [f \in Fields |->
                        [v \in ValuesOf(f) |-> findByFieldIn(bt, idxs, f, v)]],
     findByRange |-> [f \in Fields |->
                        [lo \in ValuesOf(f) |->
                            [hi \in ValuesOf(f) |->
                                findByRangeIn(bt, idxs, f, lo, hi)]]]]

\* The entries of the primary map and of every index, index by index.
Entries(bt, idxs) ==
    [primary |-> toArray(bt),
     indexes |-> [i \in DOMAIN idxs |->
                    [name |-> idxs[i].name,
                     entries |-> toArray(idxs[i].btree),
                     uniqueMap |-> idxs[i].uniqueMap]]]

NoCall == [calls |-> 0, unique |-> FALSE, same |-> TRUE, shared |-> FALSE]

InitIndexes ==
    /\ btree = BTreeNew
    /\ \E schema \in Schemas : indexes = initializeAutoIndexes(schema)
    /\ lastOp = [op |-> "none", outcome |-> "none"]
    /\ idCollision = FALSE
    /\ addRejected = FALSE
    /\ ix = NoCall
    /\ rel = Null
    /\ man = Null
    /\ rt = Null
    /\ BTreeIdle
    /\ StIdle
    /\ YIdle
    /\ ZIdle

IxAdd ==
    /\ ix.calls < MaxCalls
    /\ btree.size < MaxRecords
    /\ \E id \in Ids, value \in Inputs : add(id, value)
    /\ ix' = [NoCall EXCEPT !.calls = ix.calls + 1]
    /\ UNCHANGED <<btVars, stVars, rel, man, rt, yVars, zVars>>

IxRemove ==
    /\ ix.calls < MaxCalls
    /\ \E id \in Ids : remove(id)
    /\ ix' = [NoCall EXCEPT !.calls = ix.calls + 1]
    /\ UNCHANGED <<btVars, stVars, rel, man, rt, yVars, zVars>>

\* Whether a stored record assigns a field of value the same value.
SharesWithStored(bt, value) ==
    LET es == toArray(bt)
    IN  \E i \in DOMAIN es, f \in DOMAIN value :
           /\ f \in DOMAIN es[i].value.data
           /\ es[i].value.data[f] = value[f]

\* add(value) that returns a record and then remove of the returned id.
\* ix.same tells whether the primary map and every index hold the entries
\* they held before the add; ix.shared whether a stored record assigned a
\* field of the new one the same value.
IxAddRemove ==
    /\ ix.calls < MaxCalls
    /\ btree.size < MaxRecords
    /\ \E id \in Ids, value \in Inputs :
          \E a \in {addIn(btree, indexes, id, value)} :
          \E r \in {removeIn(a.btree, a.indexes, id)} :
              /\ a.outcome = "ok"
              /\ btree' = r.btree
              /\ indexes' = r.indexes
              /\ lastOp' = [op |-> "add_remove",
                            outcome |-> IF r.result THEN "true" ELSE "false"]
              /\ idCollision' = (idCollision \/ ~IsNull(search(btree, id)))
              /\ ix' = [calls |-> ix.calls + 1,
                        unique |-> FALSE,
                        same |-> Entries(r.btree, r.indexes)
                                    = Entries(btree, indexes),
                        shared |-> SharesWithStored(btree, value)]
    /\ UNCHANGED <<addRejected, btVars, stVars, rel, man, rt, yVars, zVars>>

\* Whether two stored records assign the field the same value.
SharedValue(bt, field) ==
    LET es == toArray(bt)
    IN  \E i, j \in DOMAIN es :
           /\ i # j
           /\ field \in DOMAIN es[i].value.data
           /\ field \in DOMAIN es[j].value.data
           /\ es[i].value.data[field] = es[j].value.data[field]

\* createIndex(config).  ix.same tells whether findByField and findByRange
\* give the caller what they gave before the call; ix.shared whether two
\* stored records shared a value of the field.
CreateIndex ==
    /\ ix.calls < MaxCalls
    /\ \E name \in IndexNames, field \in Fields, unique \in BOOLEAN :
          \E r \in {createIndex(btree, indexes,
                               [name |-> name, field |-> field, unique |-> unique])} :
              /\ indexes' = r.indexes
              /\ lastOp' = [op |-> "createIndex",
                            outcome |-> IF r.threw THEN "exists" ELSE "ok"]
              /\ ix' = [calls |-> ix.calls + 1,
                        unique |-> unique,
                        same |-> /\ Observe(btree, r.indexes).findByField
                                      = Observe(btree, indexes).findByField
                                 /\ Observe(btree, r.indexes).findByRange
                                      = Observe(btree, indexes).findByRange,
                        shared |-> SharedValue(btree, field)]
    /\ UNCHANGED <<btree, idCollision, addRejected, btVars, stVars, rel, man, rt, yVars, zVars>>

DropIndex ==
    /\ ix.calls < MaxCalls
    /\ \E name \in IndexNames :
          \E r \in {dropIndex(indexes, name)} :
              /\ indexes' = r.indexes
              /\ lastOp' = [op |-> "dropIndex",
                            outcome |-> IF r.result THEN "true" ELSE "false"]
    /\ ix' = [NoCall EXCEPT !.calls = ix.calls + 1]
    /\ UNCHANGED <<btree, idCollision, addRejected, btVars, stVars, rel, man, rt, yVars, zVars>>

\* createIndex(config) with a name not in use and then dropIndex of that
\* name.  ix.same tells whether the caller observes what it observed
\* before the two calls.
CreateDropIndex ==
    /\ ix.calls < MaxCalls
    /\ \E name \in IndexNames, field \in Fields, unique \in BOOLEAN :
          \E c \in {createIndex(btree, indexes,
                               [name |-> name, field |-> field, unique |-> unique])} :
          \E d \in {dropIndex(c.indexes, name)} :
              /\ ~c.threw
              /\ indexes' = d.indexes
              /\ lastOp' = [op |-> "create_drop",
                            outcome |-> IF d.result THEN "true" ELSE "false"]
              /\ ix' = [calls |-> ix.calls + 1,
                        unique |-> unique,
                        same |-> Observe(btree, d.indexes)
                                    = Observe(btree, indexes),
                        shared |-> SharedValue(btree, field)]
    /\ UNCHANGED <<btree, idCollision, addRejected, btVars, stVars, rel, man, rt, yVars, zVars>>

NextIndexes ==
    \/ IxAdd
    \/ IxRemove
    \/ IxAddRemove
    \/ CreateIndex
    \/ DropIndex
    \/ CreateDropIndex

SpecIndexes == InitIndexes /\ [][NextIndexes]_vars

\* C15: createIndex with unique = TRUE on a field where two stored records
\* share a value fails with a unique violation, and the index is not
\* retained: listIndexes is what it was before the call (the name being one
\* not in use, and uuid() having returned fresh ids).
C15_CreateUniqueOnSharedFails ==
    [][(CreateIndex /\ ix'.unique /\ ix'.shared /\ lastOp'.outcome # "exists"
           /\ ~idCollision)
          => (lastOp'.outcome = "unique_violation"
                 /\ listIndexes(indexes') = listIndexes(indexes))]_vars

\* C16: add(v) followed by remove of the returned id leaves the primary map
\* and every index with exactly the entries they had before, also when a
\* stored record shares an indexed value of v (uuid() returning a fresh id).
C16_AddRemoveRestores ==
    (lastOp.op = "add_remove" /\ ~idCollision) => ix.same

\* C17: createIndex(x) with a name not in use followed by dropIndex(x)
\* changes nothing a caller observes: listIndexes, the records, findByField
\* and findByRange answer as before.
C17_CreateDropIsNoOp ==
    lastOp.op = "create_drop" => ix.same

\* C17 witness: a unique index was created over two records sharing the
\* value of its field, and dropped again.
C17_Witness ==
    /\ lastOp.op = "create_drop"
    /\ lastOp.outcome = "true"
    /\ ix.unique
    /\ ix.shared
    /\ btree.size >= 2


(***************************************************************************)
(* MockStorage auto-commit (src/unnamed/part_006) over DatabaseFile        *)
(* (src/unnamed/part_010).                                                 *)
(*                                                                         *)
(* mem[c] is the revision of collection c: the number of modifications     *)
(* (add, remove) that have completed on it; a snapshot of c is the         *)
(* revision it was taken at, and so are staged[c] and disk[c].  A timer is *)
(* [handle, left], left the ticks until it is due; a due timer fires       *)
(* before time moves on.  A commitAll() in flight is [k, phase, buffer]    *)
(* with two history fields, atFire and mods.                               *)
(***************************************************************************)
MaxMods == 4      \* modifications are offered while fewer have been made

RECURSIVE SumOver(_, _)
SumOver(f, S) ==
    IF S = {} THEN 0
    ELSE LET x == CHOOSE y \in S : TRUE IN f[x] + SumOver(f, S \ {x})

TotalMods == SumOver(mem, Collections)

Cap(n) == IF n > QuietTicks + 1 THEN QuietTicks + 1 ELSE n

\* The handle setTimeout returns: one no live timer and no stored handle has.
FreshHandle ==
    LET used == {t.handle : t \in timers}
                \cup (IF IsNull(autoCommitTimer) THEN {} ELSE {Get(autoCommitTimer)})
    IN  CHOOSE h \in 1..(Cardinality(used) + 1) :
            h \notin used /\ \A g \in 1..(h - 1) : g \in used

\* clearTimeout(handle)
clearTimeout(ts, handle) == {t \in ts : t.handle # handle}

\* Mutant of scheduleAutoCommit: the pendingCommit check is missing, so
\* every modification clears the timer and arms a new one.
scheduleAutoCommit_NoPendingCheck ==
    LET cleared == IF IsNull(autoCommitTimer) THEN timers
                   ELSE clearTimeout(timers, Get(autoCommitTimer))
    IN  [pendingCommit |-> TRUE,
         timers |-> cleared \cup {[handle |-> FreshHandle, left |-> QuietTicks]},
         autoCommitTimer |-> Some(FreshHandle)]

\* Mutant of scheduleAutoCommit: every modification arms a timer of its own.
scheduleAutoCommit_TimerPerModification ==
    [pendingCommit |-> TRUE,
     timers |-> timers \cup {[handle |-> FreshHandle, left |-> QuietTicks]},
     autoCommitTimer |-> Some(FreshHandle)]

\* MockStorage.scheduleAutoCommit, run by the modify listener: the values
\* it leaves in pendingCommit, timers and autoCommitTimer.
scheduleAutoCommit ==
    IF pendingCommit
    THEN [pendingCommit |-> pendingCommit, timers |-> timers,
          autoCommitTimer |-> autoCommitTimer]
    ELSE LET cleared == IF IsNull(autoCommitTimer) THEN timers
                        ELSE clearTimeout(timers, Get(autoCommitTimer))
         IN  [pendingCommit |-> TRUE,
              timers |-> cleared \cup {[handle |-> FreshHandle,
                                        left |-> QuietTicks]},
              autoCommitTimer |-> Some(FreshHandle)]

\* The .then and .catch callbacks of the timer's commitAll(): the value
\* each leaves in pendingCommit.
autoCommitThen == FALSE

\* Mutant of autoCommitCatch: the failure path leaves the flag as it is.
autoCommitCatch_KeepsFlag == pendingCommit

autoCommitCatch == FALSE

InitStorage ==
    /\ StIdle
    /\ ColIdle
    /\ BTreeIdle
    /\ XIdle
    /\ YIdle
    /\ ZIdle

\* A modification of collection c completes (add or remove, under the
\* collection's lock) and triggerModify runs the storage's listener.
Modify(c) ==
    /\ TotalMods < MaxMods
    /\ mem' = [mem EXCEPT ![c] = @ + 1]
    /\ pendingCommit' = scheduleAutoCommit.pendingCommit
    /\ timers' = scheduleAutoCommit.timers
    /\ autoCommitTimer' = scheduleAutoCommit.autoCommitTimer
    /\ hist' = [hist EXCEPT
                   !.sinceLast = 0,
                   !.sinceFirst = IF pendingCommit THEN @ ELSE 0,
                   !.windowMods = IF ~pendingCommit THEN 1
                                  ELSE IF timers # {} THEN @ + 1 ELSE @,
                   !.modInFlight = @ \/ commits # <<>>]
    /\ UNCHANGED <<commits, staged, disk, btVars, colVars, xVars, yVars, zVars>>

\* One tick of time passes; no timer is due.
Tick ==
    /\ timers # {}
    /\ \A t \in timers : t.left > 0
    /\ timers' = {[t EXCEPT !.left = @ - 1] : t \in timers}
    /\ hist' = [hist EXCEPT !.sinceFirst = Cap(@ + 1),
                            !.sinceLast = Cap(@ + 1)]
    /\ UNCHANGED <<mem, pendingCommit, autoCommitTimer, commits, staged, disk,
                   btVars, colVars, xVars, yVars, zVars>>

\* A due timer fires: its callback calls commitAll(), which runs up to its
\* first await.
TimerFire ==
    /\ \E t \in timers :
          /\ t.left = 0
          /\ timers' = timers \ {t}
    /\ commits' = Append(commits, [k |-> 1, phase |-> "snap", buffer |-> staged,
                                   atFire |-> mem, mods |-> hist.windowMods])
    /\ hist' = [hist EXCEPT
                   !.lastFire = [fired |-> TRUE, sinceFirst |-> hist.sinceFirst,
                                 sinceLast |-> hist.sinceLast,
                                 mods |-> hist.windowMods]]
    /\ UNCHANGED <<mem, pendingCommit, autoCommitTimer, staged, disk, btVars,
                   colVars, xVars, yVars, zVars>>

\* Mutant of Snapshot: save() serializes what was staged before the last
\* collection's setCollection.
Snapshot_SerializesEarly(i) ==
    /\ commits[i].phase = "snap"
    /\ LET c == Cols[commits[i].k]
           staged2 == [staged EXCEPT ![c] = mem[c]]
           last == commits[i].k = Len(Cols)
       IN  /\ staged' = staged2
           /\ commits' = [commits EXCEPT
                             ![i].k = @ + 1,
                             ![i].phase = IF last THEN "save" ELSE "snap",
                             ![i].buffer = @]
    /\ UNCHANGED <<mem, pendingCommit, timers, autoCommitTimer, disk, hist,
                   btVars, colVars, xVars, yVars, zVars>>


\* commitAll's loop body for its k-th collection: allInternal() under the
\* collection's lock, then setCollection.  After the last collection,
\* save() serializes what is staged before its first await.
Snapshot(i) ==
    /\ commits[i].phase = "snap"
    /\ LET c == Cols[commits[i].k]
           staged2 == [staged EXCEPT ![c] = mem[c]]
           last == commits[i].k = Len(Cols)
       IN  /\ staged' = staged2
           /\ commits' = [commits EXCEPT
                             ![i].k = @ + 1,
                             ![i].phase = IF last THEN "save" ELSE "snap",
                             ![i].buffer = IF last THEN staged2 ELSE @]
    /\ UNCHANGED <<mem, pendingCommit, timers, autoCommitTimer, disk, hist,
                   btVars, colVars, xVars, yVars, zVars>>

RemoveAt(seq, i) == SubSeq(seq, 1, i - 1) \o SubSeq(seq, i + 1, Len(seq))

\* save()'s mkdir and writeFile succeed; commitAll resolves.
SaveOk(i) ==
    /\ commits[i].phase = "save"
    /\ disk' = commits[i].buffer
    /\ commits' = RemoveAt(commits, i)
    /\ pendingCommit' = autoCommitThen
    /\ UNCHANGED <<mem, timers, autoCommitTimer, staged, hist, btVars, colVars, xVars, yVars, zVars>>

\* save()'s mkdir or writeFile fails; commitAll rejects.  The file is taken
\* to keep its previous content.
SaveFail(i) ==
    /\ commits[i].phase = "save"
    /\ commits' = RemoveAt(commits, i)
    /\ pendingCommit' = autoCommitCatch
    /\ hist' = [hist EXCEPT !.ioFailed = TRUE]
    /\ UNCHANGED <<mem, timers, autoCommitTimer, staged, disk, btVars, colVars, xVars, yVars, zVars>>

NextStorage ==
    \/ \E c \in Collections : Modify(c)
    \/ Tick
    \/ TimerFire
    \/ \E i \in DOMAIN commits : Snapshot(i)
    \/ \E i \in DOMAIN commits : SaveOk(i)
    \/ \E i \in DOMAIN commits : SaveFail(i)

SpecStorage == InitStorage /\ [][NextStorage]_vars

\* The scheduling the event loop gives: time passes and a due timer fires.
SpecStorageFair == SpecStorage /\ WF_vars(Tick) /\ WF_vars(TimerFire)

(***************************************************************************)
(* Claims about auto-commit (specifications SpecStorage, SpecStorageFair). *)
(***************************************************************************)
\* C6: with no I/O failure, every completed modification is written to disk
\* without a later modification being needed, also one that completes while
\* a rewrite is in flight: once no timer is armed and no rewrite is in
\* flight, the file holds every collection's current revision.
C6_SettledMeansWritten ==
    (timers = {} /\ commits = <<>> /\ ~hist.ioFailed) => disk = mem

C8_OneRewriteHoldsTheWindow ==
    /\ [][(mem' # mem /\ timers # {})
             => (timers' = timers /\ commits' = commits)]_vars
    /\ [](\A i \in DOMAIN commits :
             commits[i].phase = "save" =>
                 \A c \in Collections :
                     commits[i].buffer[c] >= commits[i].atFire[c])

\* A rewrite is being written whose window saw three modifications, on both
\* collections, and its buffer holds every one of them.
C8_Witness ==
    \E i \in DOMAIN commits :
        /\ commits[i].phase = "save"
        /\ commits[i].mods >= 3
        /\ \A c \in Collections : commits[i].atFire[c] > 0
        /\ commits[i].buffer = commits[i].atFire

\* C9: at most one auto-commit rewrite is in flight at any time, and no new
\* cycle (timer) is started while one is.
C9_AtMostOneRewriteInFlight ==
    /\ Len(commits) <= 1
    /\ commits # <<>> => timers = {}

\* A modification has completed while a rewrite was in flight, and that
\* rewrite is still the only one.
C9_Witness == hist.modInFlight /\ commits # <<>> /\ pendingCommit

\* C10: a rewrite that fails leaves the in-memory state alone and clears
\* the pending flag; the next modification arms the timer again, and the
\* armed timer leads to a new rewrite attempt.
C10_FailedRewriteIsRetried ==
    /\ [][(\E i \in DOMAIN commits : SaveFail(i))
             => (mem' = mem /\ ~pendingCommit')]_vars
    /\ [][(hist.ioFailed /\ ~pendingCommit /\ mem' # mem)
             => (pendingCommit' /\ timers' # {})]_vars
    /\ (hist.ioFailed /\ timers # {}) ~> (commits # <<>>)

\* After a failed rewrite a later modification has led to a new attempt.
C10_Witness ==
    /\ hist.ioFailed
    /\ \E i \in DOMAIN commits : commits[i].atFire # disk

MaxRelCalls == 5   \* SpecRelation follows the relation for this many calls

Policies == {"cascade", "restrict", "set-null"}

\* MockCollection.add on a collection without indexes.
addTo(bt, id, value) == insert(bt, id, [id |-> id, data |-> value], PrimaryOrder)

\* MockCollection.find with the callback of handleDelete: the views whose
\* sourceField equals targetValue, in the order of the primary map.
findReferencing(bt, targetValue) ==
    LET es == toArray(bt)
        hit == SelectSeq(es, LAMBDA e : "userId" \in DOMAIN e.value.data
                                          /\ e.value.data["userId"] = targetValue)
    IN  [i \in DOMAIN hit |-> hit[i].value]

\* Mutant of restrictThrows: one referencing record is let through.
restrictThrows_MoreThanOne(sourceRecords) == Len(sourceRecords) > 1

\* handleDelete, case "restrict": whether it throws.
restrictThrows(sourceRecords) == Len(sourceRecords) > 0

NoLast ==
    [op |-> "none", threw |-> FALSE, deleted |-> 0, quiet |-> TRUE,
     referenced |-> FALSE, exact |-> TRUE, counted |-> TRUE,
     still |-> FALSE]

InitRelation ==
    /\ \E policy \in Policies :
          rel = [policy |-> policy, source |-> BTreeNew, target |-> BTreeNew,
                 hd |-> Null, last |-> NoLast, calls |-> 0,
                 collided |-> FALSE, seq |-> Null]
    /\ ix = Null
    /\ man = Null
    /\ rt = Null
    /\ ColIdle
    /\ BTreeIdle
    /\ StIdle
    /\ YIdle
    /\ ZIdle

\* A write by another caller while handleDelete is in flight.
Interfere(hd) == IF IsNull(hd) THEN hd ELSE Some([Get(hd) EXCEPT !.quiet = FALSE])

\* sourceCollection.add({userId: t}), uuid() returning id.
SourceAdd ==
    /\ rel.calls < MaxRelCalls
    /\ rel.source.size < MaxRecords
    /\ \E id \in Ids, t \in Ids :
          rel' = [rel EXCEPT !.calls = @ + 1,
                             !.source = addTo(@, id, [userId |-> t]),
                             !.collided = @ \/ ~IsNull(search(rel.source, id)),
                             !.hd = Interfere(@),
                             !.last = NoLast]
    /\ UNCHANGED <<colVars, btVars, stVars, ix, man, rt, yVars, zVars>>

\* sourceCollection.remove(id).
SourceRemove ==
    /\ rel.calls < MaxRelCalls
    /\ \E id \in Ids :
          \E r \in {removeIn(rel.source, <<>>, id)} :
              rel' = [rel EXCEPT !.calls = @ + 1,
                                 !.source = r.btree,
                                 !.hd = IF r.result THEN Interfere(@) ELSE @,
                                 !.last = NoLast]
    /\ UNCHANGED <<colVars, btVars, stVars, ix, man, rt, yVars, zVars>>

\* targetCollection.add({}), uuid() returning id.
TargetAdd ==
    /\ rel.calls < MaxRelCalls
    /\ rel.target.size < MaxRecords
    /\ \E id \in Ids :
          rel' = [rel EXCEPT !.calls = @ + 1,
                             !.target = addTo(@, id, <<>>),
                             !.hd = Interfere(@),
                             !.last = NoLast]
    /\ UNCHANGED <<colVars, btVars, stVars, ix, man, rt, yVars, zVars>>

\* targetCollection.remove(id).  last.threw stays FALSE: remove does not
\* throw; last.referenced tells whether the call deleted a target record
\* while a source record's foreign key was id.
TargetRemove ==
    /\ rel.calls < MaxRelCalls
    /\ \E id \in Ids :
          \E r \in {removeIn(rel.target, <<>>, id)} :
              rel' = [rel EXCEPT
                         !.calls = @ + 1,
                         !.target = r.btree,
                         !.hd = IF r.result THEN Interfere(@) ELSE @,
                         !.last = [NoLast EXCEPT
                                      !.op = "target.remove",
                                      !.deleted = IF r.result THEN 1 ELSE 0,
                                      !.referenced =
                                          Len(findReferencing(rel.source, id)) > 0]]
    /\ UNCHANGED <<colVars, btVars, stVars, ix, man, rt, yVars, zVars>>

\* handleDelete(t) up to the end of `await sourceCollection.find(...)`.
\* The history fields keep what the call has to leave: size, the number of
\* source records at this point, and keep, those that do not reference t.
\* A delete sequence left open by an earlier handleDelete is given up.
HandleDeleteFind ==
    /\ rel.calls < MaxRelCalls
    /\ IsNull(rel.hd)
    /\ \E t \in Ids :
          rel' = [rel EXCEPT
                     !.calls = @ + 1,
                     !.seq = Null,
                     !.hd = Some([targetValue |-> t,
                                  sourceRecords |-> findReferencing(rel.source, t),
                                  i |-> 1,
                                  deleted |-> 0,
                                  quiet |-> TRUE,
                                  size |-> rel.source.size,
                                  keep |-> SelectSeq(toArray(rel.source),
                                              LAMBDA e : e.value.data["userId"] # t)]),
                     !.last = NoLast]
    /\ UNCHANGED <<colVars, btVars, stVars, ix, man, rt, yVars, zVars>>

\* case "cascade": one turn of the loop, remove(record.id) and deleted++.
HandleDeleteCascade ==
    /\ ~IsNull(rel.hd)
    /\ rel.policy = "cascade"
    /\ Get(rel.hd).i <= Len(Get(rel.hd).sourceRecords)
    /\ \E r \in {removeIn(rel.source, <<>>,
                          Get(rel.hd).sourceRecords[Get(rel.hd).i].id)} :
          rel' = [rel EXCEPT
                     !.source = r.btree,
                     !.hd = Some([Get(@) EXCEPT !.i = @ + 1,
                                                !.deleted = @ + 1]),
                     !.last = NoLast]
    /\ UNCHANGED <<colVars, btVars, stVars, ix, man, rt, yVars, zVars>>

\* The end of handleDelete: the throw of case "restrict", or the return of
\* {deleted, updated}.  Case "set-null" logs a warning and changes nothing.
\* last.still tells whether a source record references targetValue at this
\* point; seq is the target id the caller goes on to remove when the call
\* has not thrown (`await relation.handleDelete(id); await users.remove(id)`).
HandleDeleteReturn ==
    /\ ~IsNull(rel.hd)
    /\ rel.policy = "cascade" => Get(rel.hd).i > Len(Get(rel.hd).sourceRecords)
    /\ LET hd == Get(rel.hd)
           threw == rel.policy = "restrict" /\ restrictThrows(hd.sourceRecords)
       IN  rel' = [rel EXCEPT
                      !.hd = Null,
                      !.seq = IF threw THEN Null ELSE Some(hd.targetValue),
                      !.last = [op |-> "handleDelete",
                                threw |-> threw,
                                deleted |-> hd.deleted,
                                quiet |-> hd.quiet,
                                referenced |-> hd.size > Len(hd.keep),
                                exact |-> toArray(rel.source) = hd.keep,
                                counted |-> hd.deleted
                                              = hd.size - rel.source.size,
                                still |-> Len(findReferencing(rel.source,
                                                  hd.targetValue)) > 0]]
    /\ UNCHANGED <<colVars, btVars, stVars, ix, man, rt, yVars, zVars>>

\* The second call of a delete sequence: targetCollection.remove(t) after
\* handleDelete(t) has returned.  last.referenced tells whether a source
\* record references t when the target record is gone.
SequenceRemove ==
    /\ ~IsNull(rel.seq)
    /\ IsNull(rel.hd)
    /\ \E r \in {removeIn(rel.target, <<>>, Get(rel.seq))} :
          rel' = [rel EXCEPT
                     !.target = r.btree,
                     !.seq = Null,
                     !.last = [NoLast EXCEPT
                                  !.op = "sequence.remove",
                                  !.deleted = IF r.result THEN 1 ELSE 0,
                                  !.referenced =
                                      Len(findReferencing(rel.source,
                                                          Get(rel.seq))) > 0]]
    /\ UNCHANGED <<colVars, btVars, stVars, ix, man, rt, yVars, zVars>>

NextRelation ==
    \/ SourceAdd
    \/ SourceRemove
    \/ TargetAdd
    \/ TargetRemove
    \/ HandleDeleteFind
    \/ HandleDeleteCascade
    \/ HandleDeleteReturn
    \/ SequenceRemove

SpecRelation == InitRelation /\ [][NextRelation]_vars

(***************************************************************************)
(* Claims about relations (specification SpecRelation).                    *)
(***************************************************************************)
HandleDeleteStarts == IsNull(rel.hd) /\ ~IsNull(rel'.hd)
HandleDeleteEnds == ~IsNull(rel.hd) /\ IsNull(rel'.hd)

\* C18: under the policy restrict, remove(id) on the target collection never
\* deletes a target record while a source record's foreign key equals id.
C18_RestrictRemoveKeepsReferenced ==
    (rel.policy = "restrict" /\ rel.last.op = "target.remove"
        /\ rel.last.deleted = 1)
       => ~rel.last.referenced

\* C19: under the policy restrict, handleDelete(t) throws exactly when a
\* source record referenced t when it looked, and none of its steps changes
\* the source or the target collection, whether it throws or returns.
C19_RestrictThrowsAndChangesNothing ==
    [][rel.policy = "restrict"
          => /\ (HandleDeleteStarts \/ HandleDeleteEnds)
                    => (rel'.source = rel.source /\ rel'.target = rel.target)
             /\ HandleDeleteEnds
                    => /\ rel'.last.op = "handleDelete"
                       /\ rel'.last.threw <=> rel'.last.referenced
                       /\ rel'.last.deleted = 0]_vars

\* C19 witness: handleDelete has thrown with two source records stored and
\* a target record present.
C19_Witness ==
    /\ rel.policy = "restrict"
    /\ rel.last.op = "handleDelete"
    /\ rel.last.threw
    /\ rel.source.size >= 2
    /\ rel.target.size >= 1

\* C20: under the policy cascade, a handleDelete(t) during which no other
\* call wrote leaves exactly the source records whose foreign key is not t
\* and reports the number of records it removed.
C20_CascadeRemovesExactlyTheReferencing ==
    (rel.policy = "cascade" /\ rel.last.op = "handleDelete" /\ rel.last.quiet)
       => (rel.last.exact /\ rel.last.counted)

\* C21: under the policy set-null, when handleDelete(t) returns no source
\* record references t any more and no source record has been removed.
C21_SetNullClearsReferences ==
    (rel.policy = "set-null" /\ rel.last.op = "handleDelete"
        /\ rel.last.quiet)
       => (~rel.last.still /\ rel.last.deleted = 0 /\ rel.last.counted)

\* C22: when a delete sequence, handleDelete(t) then remove(t) on the target
\* collection, completes under cascade or restrict, the target record was not
\* removed or no source record references t, whatever adds to the source
\* collection ran in between.
C22_SequenceLeavesNoDanglingReference ==
    (rel.policy \in {"cascade", "restrict"} /\ rel.last.op = "sequence.remove"
        /\ ~rel.collided /\ rel.last.deleted = 1)
       => ~rel.last.referenced

(***************************************************************************)
(* SpecManual: the storage manager from its construction on, over a        *)
(* database file that may exist already, with commit(name) called next to  *)
(* the auto-commit cycle.  man is [persist, file, initialized, loaded,     *)
(* last]: the persist option of the configuration (autoCommit keeps its    *)
(* default, true), the content of the file when the manager was            *)
(* constructed, MockStorage.initialized, whether initialize() seeded a     *)
(* collection from the file, and the commit(name) calls made: their number *)
(* and the name passed to the last.                                        *)
(***************************************************************************)
MaxCommit == 1    \* the caller calls commit(name) this many times

\* The files the manager is constructed over: none, and one an earlier
\* manager wrote with commitAll(), holding both collections, the first with
\* a record.
NoFile == [c \in Collections |-> 0]

Files == {NoFile, [c \in Collections |-> IF c = Cols[1] THEN 1 ELSE 0]}

NoCommit == [calls |-> 0, name |-> Cols[1]]

InitManual ==
    /\ \E persist \in BOOLEAN, file \in Files :
          /\ man = [persist |-> persist, file |-> file, initialized |-> FALSE,
                    loaded |-> FALSE, last |-> NoCommit]
          /\ disk = file
    /\ mem = [c \in Collections |-> 0]
    /\ staged = [c \in Collections |-> 0]
    /\ pendingCommit = FALSE
    /\ timers = {}
    /\ autoCommitTimer = Null
    /\ commits = <<>>
    /\ hist = [sinceFirst |-> 0, sinceLast |-> 0, windowMods |-> 0,
               lastFire |-> NoFire, ioFailed |-> FALSE,
               modInFlight |-> FALSE]
    /\ ix = Null
    /\ rel = Null
    /\ rt = Null
    /\ ColIdle
    /\ BTreeIdle
    /\ YIdle
    /\ ZIdle

\* MockStorage.initialize, run by the first collection access: load() reads
\* the file into DatabaseFile.collections, and every stored collection is
\* instantiated and seeded with init(data.records), whose triggerModify
\* runs the auto-commit listener.  The persist option is not read.
Initialize ==
    /\ ~man.initialized
    /\ staged' = disk
    /\ mem' = disk
    /\ man' = [man EXCEPT !.initialized = TRUE,
                          !.loaded = \E c \in Collections : disk[c] # 0]
    /\ IF man.file = NoFile
       THEN UNCHANGED <<pendingCommit, timers, autoCommitTimer, hist>>
       ELSE /\ pendingCommit' = scheduleAutoCommit.pendingCommit
            /\ timers' = scheduleAutoCommit.timers
            /\ autoCommitTimer' = scheduleAutoCommit.autoCommitTimer
            /\ hist' = [hist EXCEPT !.sinceLast = 0, !.sinceFirst = 0,
                                    !.windowMods = 1]
    /\ UNCHANGED <<commits, disk, btVars, colVars, ix, rel, rt, yVars, zVars>>

\* MockStorage.commit(name): persist.commit(), whose body is empty.
MockPersist_commit(c) == disk

Commit(c) ==
    /\ man.initialized
    /\ man.last.calls < MaxCommit
    /\ disk' = MockPersist_commit(c)
    /\ man' = [man EXCEPT !.last = [calls |-> @.calls + 1, name |-> c]]
    /\ UNCHANGED <<mem, pendingCommit, timers, autoCommitTimer, commits, staged,
                   hist, btVars, colVars, ix, rel, rt, yVars, zVars>>

NextManual ==
    \/ Initialize
    \/ \E c \in Collections : Commit(c)
    \/ man.initialized /\ \E c \in Collections : Modify(c)
    \/ man.initialized /\ Tick
    \/ man.initialized /\ TimerFire
    \/ \E i \in DOMAIN commits : Snapshot(i)
    \/ \E i \in DOMAIN commits : SaveOk(i)
    \/ \E i \in DOMAIN commits : SaveFail(i)

SpecManual == InitManual /\ [][NextManual]_vars

(***************************************************************************)
(* Claims about commit(name) and the persist option (SpecManual).          *)
(***************************************************************************)
\* C11: when commit(name) completes (persistence being enabled), the file
\* holds the collection's current records: its revision on disk is its
\* revision in memory.
C11_CommitWritesCollection ==
    [][\A c \in Collections :
          (man.persist /\ man'.last.calls > man.last.calls /\ man'.last.name = c)
             => disk'[c] = mem'[c]]_vars

\* C14: with persist = false the manager does no file I/O: initialize()
\* seeds no collection from an existing file, and the file keeps the
\* content it had when the manager was constructed.
C14_NoPersistNoFileIO ==
    ~man.persist => (~man.loaded /\ disk = man.file)

(***************************************************************************)
(* SpecRoundTrip: one collection, users, written to the database file by   *)
(* commitAll() (part_006 561-586, DatabaseFile.serialize in part_010,      *)
(* BinaryStorage in binary-storage.ts) and read back by the initialize()   *)
(* of a fresh manager.  A field definition of the schemas passed to a      *)
(* manager is [kind |-> "def", type, unique, hidden]; an entry of a simple *)
(* schema, as getSchema returns and the file stores it, is                 *)
(* [kind |-> "type", type].  A value is [t, v], t what typeof / instanceof *)
(* tells of it and v a boolean or a small natural standing for the string, *)
(* the number or the Date's epoch milliseconds.  The file is a record of   *)
(* the sections written, a value in it the type code and the payload.      *)
(* rt is [phase, schema, records, indexes, file, opened]: the first        *)
(* manager's schema, record views in primary-key order and index           *)
(* directory, the file, and what the fresh manager holds.                  *)
(***************************************************************************)
FORMAT_VERSION == 1

TagTypes == {"number", "boolean", "datetime"}

\* The schemas tried: email a unique string, tag of any other type,
\* hidden or not.
RtSchemas ==
    { << [field |-> "email",
          def |-> [kind |-> "def", type |-> "string", unique |-> TRUE,
                   hidden |-> FALSE]],
         [field |-> "tag",
          def |-> [kind |-> "def", type |-> t, unique |-> FALSE,
                   hidden |-> h]] >> : t \in TagTypes, h \in BOOLEAN }

\* The values a field of the type takes.
ValuesOfType(t) ==
    IF t = "boolean" THEN {[t |-> t, v |-> b] : b \in BOOLEAN}
    ELSE IF t = "string" THEN {[t |-> t, v |-> n] : n \in Vals}
    ELSE {[t |-> t, v |-> n] : n \in Tags}

\* value.type of a schema entry: undefined (Null) for an entry of a simple
\* schema, which is a string.
TypeProperty(entry) == IF entry.kind = "def" THEN Some(entry.type) ELSE Null

\* toSimpleSchemaRuntime: field -> value.type.
toSimpleSchemaRuntime(schema) ==
    [i \in DOMAIN schema |->
        [field |-> schema[i].field, type |-> TypeProperty(schema[i].def)]]

\* extractIndexConfigs on a schema of definitions or of type names: the
\* properties index and unique of a string are undefined.
extractIndexConfigsOf(schema) ==
    LET marked == SelectSeq(schema, LAMBDA e : e.def.kind = "def" /\ e.def.unique)
    IN  [i \in DOMAIN marked |->
            [name |-> marked[i].field \o "_idx", field |-> marked[i].field,
             unique |-> TRUE]]

\* MockRecord.isValidType.
isValidType(value, expectedType) ==
    /\ ~IsNull(expectedType)
    /\ Get(expectedType) \in {"string", "number", "boolean", "datetime"}
    /\ value.t = Get(expectedType)

\* MockRecord.validateRecord against a simple schema.
validateRecordOf(data, simple) ==
    \A i \in DOMAIN simple :
        /\ simple[i].field \in DOMAIN data
        /\ isValidType(data[simple[i].field], simple[i].type)

\* enum TypeCode and the switch of writeSchema.
TypeCode(fieldType) ==
    IF fieldType = Some("string") THEN 0
    ELSE IF fieldType = Some("number") THEN 1
    ELSE IF fieldType = Some("boolean") THEN 2
    ELSE IF fieldType = Some("datetime") THEN 3
    ELSE 0

\* The switch of readSchema.
TypeOfCode(typeCode) ==
    IF typeCode = 1 THEN "number"
    ELSE IF typeCode = 2 THEN "boolean"
    ELSE IF typeCode = 3 THEN "datetime"
    ELSE "string"

writeSchema(simple) ==
    [i \in DOMAIN simple |->
        [fieldName |-> simple[i].field, typeCode |-> TypeCode(simple[i].type)]]

readSchema(section) ==
    [i \in DOMAIN section |->
        [field |-> section[i].fieldName,
         type |-> Some(TypeOfCode(section[i].typeCode))]]

writeIndexes(idxs) ==
    [i \in DOMAIN idxs |->
        [name |-> idxs[i].name, field |-> idxs[i].field,
         flags |-> IF idxs[i].unique THEN 1 ELSE 0]]

readIndexes(section) ==
    [i \in DOMAIN section |->
        [name |-> section[i].name, field |-> section[i].field,
         unique |-> section[i].flags % 2 # 0]]

\* writeRecords: the fields of one record, by the schema's field types.
writeValue(fieldType, data, field) ==
    IF field \notin DOMAIN data THEN [typeCode |-> 4, payload |-> 0]
    ELSE IF fieldType = Some("boolean")
         THEN [typeCode |-> 2, payload |-> IF data[field].v THEN 1 ELSE 0]
    ELSE [typeCode |-> TypeCode(fieldType), payload |-> data[field].v]

writeRecords(simple, records) ==
    [r \in DOMAIN records |->
        [id |-> records[r].id,
         fields |-> [i \in DOMAIN simple |->
                        writeValue(simple[i].type, records[r].data,
                                   simple[i].field)]]]

\* readRecords: a value is read by the schema's field type; null for the
\* type code NULL.
readValue(fieldType, token) ==
    IF token.typeCode = 4 THEN [t |-> "null", v |-> 0]
    ELSE IF fieldType = Some("boolean")
         THEN [t |-> "boolean", v |-> token.payload # 0]
    ELSE [t |-> Get(fieldType), v |-> token.payload]

readRecords(simple, section) ==
    [r \in DOMAIN section |->
        [id |-> section[r].id,
         data |-> [f \in {simple[i].field : i \in DOMAIN simple} |->
                     LET i == CHOOSE j \in DOMAIN simple : simple[j].field = f
                     IN  readValue(simple[i].type, section[r].fields[i])]]]

BinaryStorage_serialize(simple, records, idxs) ==
    [magic |-> "MOCK", version |-> FORMAT_VERSION,
     schema |-> writeSchema(simple), indexes |-> writeIndexes(idxs),
     data |-> writeRecords(simple, records), recordCount |-> Len(records)]

\* BinaryStorage.deserialize gives [threw, schema, records, indexes].
BinaryStorage_deserialize(buffer) ==
    IF buffer.magic # "MOCK" \/ buffer.version # FORMAT_VERSION
    THEN [threw |-> TRUE, schema |-> <<>>, records |-> <<>>, indexes |-> <<>>]
    ELSE LET schema == readSchema(buffer.schema)
         IN  [threw |-> FALSE, schema |-> schema,
              records |-> readRecords(schema,
                              SubSeq(buffer.data, 1, buffer.recordCount)),
              indexes |-> readIndexes(buffer.indexes)]

\* DatabaseFile.serialize of DatabaseFile.collections, here the one
\* collection commitAll has set.
DatabaseFile_serialize(data) ==
    [magic |-> "MODB", version |-> FORMAT_VERSION,
     collections |-> << [name |-> data.name,
                         buffer |-> BinaryStorage_serialize(
                                        data.schema, data.records,
                                        data.indexes)] >>]

\* DatabaseFile.load: the collections read, none when deserialize throws.
DatabaseFile_load(file) ==
    IF file.magic # "MODB" \/ file.version # FORMAT_VERSION
    THEN <<>>
    ELSE LET read == [i \in DOMAIN file.collections |->
                        [name |-> file.collections[i].name,
                         data |-> BinaryStorage_deserialize(
                                      file.collections[i].buffer)]]
         IN  IF \E i \in DOMAIN read : read[i].data.threw THEN <<>> ELSE read

\* The directory commitAll stores: listIndexes with each index's stats.
DirectoryOf(idxs) ==
    [i \in DOMAIN idxs |->
        [name |-> idxs[i].name, field |-> idxs[i].field,
         unique |-> idxs[i].unique]]

\* The loop of initialize over data.indexes: createIndex unless the name
\* exists.
RECURSIVE restoreIndexes(_, _, _)
restoreIndexes(idxs, stored, i) ==
    IF i > Len(stored) THEN idxs
    ELSE restoreIndexes(
             IF \E j \in DOMAIN idxs : idxs[j].name = stored[i].name
             THEN idxs ELSE Append(idxs, stored[i]),
             stored, i + 1)

\* MockStorage.initialize of a manager constructed with the schemas given
\* (none: <<>>), for the stored collection data: what the manager then
\* holds, [records, indexes].  An error of init leaves the loop, and the
\* catch of initialize swallows it.
initializeFrom(given, data) ==
    LET schema == IF given # <<>> THEN given
                  ELSE [i \in DOMAIN data.schema |->
                           [field |-> data.schema[i].field,
                            def |-> [kind |-> "type",
                                     type |-> Get(data.schema[i].type)]]]
        simple == toSimpleSchemaRuntime(schema)
        auto == extractIndexConfigsOf(schema)
        valid == \A r \in DOMAIN data.records :
                     validateRecordOf(data.records[r].data, simple)
    IN  IF valid
        THEN [records |-> data.records,
              indexes |-> restoreIndexes(auto, data.indexes, 1)]
        ELSE [records |-> <<>>, indexes |-> auto]

\* Mutant of initialize: the file is loaded whether or not the manager has
\* been initialized.
initialize_Reloads(initialized, current, file, given) ==
    IF DatabaseFile_load(file) = <<>>
    THEN [records |-> <<>>, indexes |-> <<>>]
    ELSE initializeFrom(given, DatabaseFile_load(file)[1].data)

\* MockStorage.initialize() on a manager that holds current, constructed
\* with the schemas given, over the file: what the manager holds afterwards.
\* `if (this.initialized) return;` comes first.
initialize(initialized, current, file, given) ==
    IF initialized THEN current
    ELSE IF DatabaseFile_load(file) = <<>>
         THEN [records |-> <<>>, indexes |-> <<>>]
         ELSE initializeFrom(given, DatabaseFile_load(file)[1].data)

\* DatabaseFile.deserialize throws on a magic number or version mismatch.
DatabaseFile_deserializeThrows(file) ==
    file.magic # "MODB" \/ file.version # FORMAT_VERSION

\* Whether initialize() raises an error to its caller.  load() wraps
\* readFile and deserialize in a try whose catch starts over with an empty
\* map, and the catch of initialize is empty: no error leaves either.
initializeRaises(file) == FALSE

\* extractHiddenFields: the fields whose definition has hidden: true.
extractHiddenFields(schema) ==
    {schema[i].field : i \in {j \in DOMAIN schema :
                                 schema[j].def.kind = "def"
                                    /\ schema[j].def.hidden}}

\* Mutant of filterHiddenFields: the copy is returned whole.
filterHiddenFields_KeepsAll(view, hiddenFields) == view

\* filterHiddenFields: a copy of the view without the hidden fields.
filterHiddenFields(view, hiddenFields) ==
    [id |-> view.id,
     data |-> [f \in DOMAIN view.data \ hiddenFields |-> view.data[f]]]

\* MockCollection.filterHidden.
filterHidden(view, hiddenFields) ==
    IF hiddenFields = {} THEN view ELSE filterHiddenFields(view, hiddenFields)

\* The methods that return views to the caller.
ViewMethods ==
    {"get", "all", "find", "first", "findByField", "findByRange",
     "allInternal"}

\* What method returns on the records, as a sequence of views.  get looks
\* up the id arg; find and first take the callback
\* record => record.email.v === arg, which sees the whole view; findByField
\* and findByRange go through the unique index on email.
viewsOf(method, records, hiddenFields, arg) ==
    LET match == SelectSeq(records, LAMBDA r : r.data["email"].v = arg)
        visible(seq) == [i \in DOMAIN seq |-> filterHidden(seq[i], hiddenFields)]
    IN  IF method = "allInternal" THEN records
        ELSE IF method = "all" THEN visible(records)
        ELSE IF method = "get"
        THEN visible(SelectSeq(records, LAMBDA r : r.id = arg))
        ELSE IF method \in {"find", "findByRange"} THEN visible(match)
        ELSE visible(SubSeq(match, 1, IF match = <<>> THEN 0 ELSE 1))

NoViews == [method |-> "none", views |-> <<>>]

InitRoundTrip ==
    /\ \E schema \in RtSchemas :
          rt = [phase |-> "live", schema |-> schema, records |-> <<>>,
                indexes |-> extractIndexConfigsOf(schema), file |-> Null,
                given |-> FALSE, opened |-> Null, out |-> NoViews]
    /\ ix = Null
    /\ rel = Null
    /\ man = Null
    /\ ColIdle
    /\ BTreeIdle
    /\ StIdle
    /\ YIdle
    /\ ZIdle

\* add(value) on the first manager; uuid() returns a fresh id.  A value
\* that fails validation or repeats a stored email is rejected.
RtAdd ==
    /\ rt.phase = "live"
    /\ Len(rt.records) < MaxRecords
    /\ \E email \in ValuesOfType("string"),
          tag \in ValuesOfType(rt.schema[2].def.type) :
          LET value == [f \in {"email", "tag"} |->
                           IF f = "email" THEN email ELSE tag]
          IN  /\ validateRecordOf(value, toSimpleSchemaRuntime(rt.schema))
              /\ \A r \in DOMAIN rt.records : rt.records[r].data["email"] # email
              /\ rt' = [rt EXCEPT
                           !.records = Append(@, [id |-> Len(rt.records) + 1,
                                                  data |-> value]),
                           !.out = [method |-> "add",
                                    views |-> <<filterHidden(
                                                  [id |-> Len(rt.records) + 1,
                                                   data |-> value],
                                                  extractHiddenFields(rt.schema))>>]]
    /\ UNCHANGED <<colVars, btVars, stVars, ix, rel, man, yVars, zVars>>

\* A method of the first manager's collection that returns views.
RtView ==
    /\ rt.phase = "live"
    /\ \E method \in ViewMethods, arg \in Vals :
          rt' = [rt EXCEPT !.out =
                    [method |-> method,
                     views |-> viewsOf(method, rt.records,
                                       extractHiddenFields(rt.schema), arg)]]
    /\ UNCHANGED <<colVars, btVars, stVars, ix, rel, man, yVars, zVars>>

\* createIndex({name: "extra_idx", field: "tag", unique}) on the first
\* manager.
RtCreateIndex ==
    /\ rt.phase = "live"
    /\ \A i \in DOMAIN rt.indexes : rt.indexes[i].name # "extra_idx"
    /\ \E unique \in BOOLEAN :
          rt' = [rt EXCEPT !.indexes =
                                Append(@, [name |-> "extra_idx", field |-> "tag",
                                           unique |-> unique]),
                           !.out = NoViews]
    /\ UNCHANGED <<colVars, btVars, stVars, ix, rel, man, yVars, zVars>>

\* commitAll() on the first manager, completing successfully: the schema
\* getSchema returns, the views of allInternal (hidden fields included)
\* and the directory are staged and the file is written.
RtCommitAll ==
    /\ rt.phase = "live"
    /\ rt' = [rt EXCEPT
                 !.phase = "committed",
                 !.out = NoViews,
                 !.file = Some(DatabaseFile_serialize(
                              [name |-> "users",
                               schema |-> toSimpleSchemaRuntime(rt.schema),
                               records |-> rt.records,
                               indexes |-> DirectoryOf(rt.indexes)]))]
    /\ UNCHANGED <<colVars, btVars, stVars, ix, rel, man, yVars, zVars>>

\* The magic word of the file is altered on disk.
RtCorrupt ==
    /\ rt.phase = "committed"
    /\ Get(rt.file).magic = "MODB"
    /\ rt' = [rt EXCEPT !.file = Some([Get(@) EXCEPT !.magic = "XODB"])]
    /\ UNCHANGED <<colVars, btVars, stVars, ix, rel, man, yVars, zVars>>

\* A fresh manager is constructed over the file, with the same schemas or
\* with none, and initialized.  raised tells whether initialize() raised an
\* error; again, that initialize() has been called a second time; touched,
\* that records were added or removed since.
RtOpen ==
    /\ rt.phase = "committed"
    /\ \E given \in BOOLEAN :
       \E r \in {initialize(FALSE, <<>>, Get(rt.file),
                             IF given THEN rt.schema ELSE <<>>)} :
          rt' = [rt EXCEPT
                    !.phase = "reopened",
                    !.given = given,
                    !.opened = Some([records |-> r.records,
                                     indexes |-> r.indexes,
                                     raised |-> initializeRaises(Get(rt.file)),
                                     again |-> FALSE,
                                     touched |-> FALSE])]
    /\ UNCHANGED <<colVars, btVars, stVars, ix, rel, man, yVars, zVars>>

\* add(value) on the reopened manager, constructed with the schemas; uuid()
\* returns a fresh id.  A value that fails validation or repeats a stored
\* email is rejected.
RtOpenedAdd ==
    /\ rt.phase = "reopened"
    /\ rt.given
    /\ Len(Get(rt.opened).records) < MaxRecords
    /\ \E email \in ValuesOfType("string"),
          tag \in ValuesOfType(rt.schema[2].def.type) :
          LET value == [f \in {"email", "tag"} |->
                           IF f = "email" THEN email ELSE tag]
              id == Len(Get(rt.opened).records) + 1
          IN  /\ validateRecordOf(value, toSimpleSchemaRuntime(rt.schema))
              /\ \A r \in DOMAIN Get(rt.opened).records :
                     Get(rt.opened).records[r].data["email"] # email
              /\ rt' = [rt EXCEPT
                           !.opened = Some([Get(@) EXCEPT
                               !.records = Append(@, [id |-> id, data |-> value]),
                               !.touched = TRUE])]
    /\ UNCHANGED <<colVars, btVars, stVars, ix, rel, man, yVars, zVars>>

\* remove(id) on the reopened manager, of the record stored last.
RtOpenedRemove ==
    /\ rt.phase = "reopened"
    /\ Get(rt.opened).records # <<>>
    /\ rt' = [rt EXCEPT
                 !.opened = Some([Get(@) EXCEPT
                     !.records = SubSeq(@, 1, Len(@) - 1),
                     !.touched = TRUE])]
    /\ UNCHANGED <<colVars, btVars, stVars, ix, rel, man, yVars, zVars>>

\* initialize() is called on the reopened manager a second time.
RtInitializeAgain ==
    /\ rt.phase = "reopened"
    /\ ~Get(rt.opened).again
    /\ \E r \in {initialize(TRUE,
                             [records |-> Get(rt.opened).records,
                              indexes |-> Get(rt.opened).indexes],
                             Get(rt.file),
                             IF rt.given THEN rt.schema ELSE <<>>)} :
          rt' = [rt EXCEPT
                    !.opened = Some([Get(@) EXCEPT !.records = r.records,
                                                   !.indexes = r.indexes,
                                                   !.again = TRUE])]
    /\ UNCHANGED <<colVars, btVars, stVars, ix, rel, man, yVars, zVars>>

NextRoundTrip ==
    \/ RtAdd
    \/ RtView
    \/ RtCreateIndex
    \/ RtCommitAll
    \/ RtCorrupt
    \/ RtOpen
    \/ RtOpenedAdd
    \/ RtOpenedRemove
    \/ RtInitializeAgain

SpecRoundTrip == InitRoundTrip /\ [][NextRoundTrip]_vars

(***************************************************************************)
(* Claims about the round trip through the file (SpecRoundTrip).           *)
(***************************************************************************)
SetOf(seq) == {seq[i] : i \in DOMAIN seq}

\* C12: a fresh manager opened on the file commitAll() wrote holds the same
\* records (ids and field values, hidden fields included) and the same
\* index directory by {name, field, unique} as the first manager at commit.
C12_ReopenYieldsCommitted ==
    (rt.phase = "reopened" /\ Get(rt.file).magic = "MODB"
        /\ ~Get(rt.opened).touched)
       => /\ Len(Get(rt.opened).records) = Len(rt.records)
          /\ SetOf(Get(rt.opened).records) = SetOf(rt.records)
          /\ SetOf(Get(rt.opened).indexes) = SetOf(DirectoryOf(rt.indexes))

(***************************************************************************)
(* MockStorage: the relations declared in the schemas (SpecRegistry).      *)
(* A manager without a database file is built over four schemas; its       *)
(* callers obtain the collections in any order.                            *)
(***************************************************************************)
\* Object.keys(schemas), in declaration order.
SchemaNames == <<"users", "posts", "comments", "profiles">>
RelationTypes == {"one-to-one", "many-to-one"}
\* FieldRelation.onDelete; "undefined" is an omitted onDelete.
OnDeletes == {"cascade", "restrict", "undefined"}

\* The fields that may carry a `relation`, in the order of their schemas.
RelationFields ==
    <<[collection |-> "posts", field |-> "userId", target |-> "users"],
      [collection |-> "comments", field |-> "postId", target |-> "posts"],
      [collection |-> "comments", field |-> "userId", target |-> "users"],
      [collection |-> "profiles", field |-> "userId", target |-> "users"]>>

\* A FieldDefinition.relation, or Null for a field that declares none.
FieldRelations ==
    {Null} \cup {Some([type |-> t, onDelete |-> o]) :
                    t \in RelationTypes, o \in OnDeletes}

\* extractRelationConfigs over every schema, in the order of
\* Object.entries(this.schemas) and of each schema's fields, from field k on.
RECURSIVE extractRelationConfigs(_, _)
extractRelationConfigs(schemas, k) ==
    IF k > Len(RelationFields) THEN <<>>
    ELSE LET f == RelationFields[k]
             rest == extractRelationConfigs(schemas, k + 1)
         IN  IF IsNull(schemas[k]) THEN rest
             ELSE <<[name |-> f.collection \o "_" \o f.field \o "_" \o f.target,
                     sourceCollection |-> f.collection,
                     targetCollection |-> f.target,
                     sourceField |-> f.field,
                     targetField |-> "id",
                     type |-> Get(schemas[k]).type,
                     onDelete |-> IF Get(schemas[k]).onDelete = "undefined"
                                  THEN "restrict"
                                  ELSE Get(schemas[k]).onDelete]>> \o rest

\* RelationManager.getRelation: this.relations.get(name).
getRelation(relations, name) ==
    LET hit == SelectSeq(relations, LAMBDA r : r.name = name)
    IN  IF hit = <<>> THEN Null ELSE Some(hit[1])

\* RelationManager.listRelations: Array.from(this.relations.keys()).
listRelations(relations) == [i \in DOMAIN relations |-> relations[i].name]

\* RelationManager.defineRelation inside the try of initializeRelations: a
\* name in use throws, and the catch only warns.
RelationManager_defineRelation(relations, config) ==
    IF ~IsNull(getRelation(relations, config.name)) THEN relations
    ELSE Append(relations, config)

\* The loop of initializeRelations over the configurations from k on.
RECURSIVE defineRelations(_, _, _, _)
defineRelations(configs, k, collections, relations) ==
    IF k > Len(configs) THEN relations
    ELSE LET c == configs[k]
             has(n) == \E i \in DOMAIN collections : collections[i] = n
         IN  defineRelations(configs, k + 1, collections,
                 IF has(c.sourceCollection) /\ has(c.targetCollection)
                 THEN RelationManager_defineRelation(relations, c)
                 ELSE relations)

\* MockStorage.initializeRelations.
initializeRelations(r) ==
    IF r.relationsInitialized THEN r
    ELSE [r EXCEPT !.relations =
                       defineRelations(extractRelationConfigs(r.schemas, 1), 1,
                                       r.collections, r.relations),
                   !.relationsInitialized = TRUE]

InitRegistry ==
    /\ \E schemas \in [DOMAIN RelationFields -> FieldRelations] :
          reg = [schemas |-> schemas, collections |-> <<>>,
                 relations |-> <<>>, relationsInitialized |-> FALSE,
                 initialized |-> FALSE]
    /\ jn = Null
    /\ lk = Null
    /\ ZIdle
    /\ XIdle
    /\ ColIdle
    /\ BTreeIdle
    /\ StIdle

\* MockStorage.collection(name).  The first call runs initialize(), which
\* finds no database file and loads nothing.
Collection ==
    \E i \in DOMAIN SchemaNames :
       LET name == SchemaNames[i]
           known == \E j \in DOMAIN reg.collections : reg.collections[j] = name
           set == [reg EXCEPT !.initialized = TRUE,
                              !.collections = IF known THEN @
                                              ELSE Append(@, name)]
       IN  /\ reg' = IF Len(set.collections) > 0 /\ ~set.relationsInitialized
                     THEN initializeRelations(set)
                     ELSE set
           /\ UNCHANGED <<btVars, colVars, stVars, xVars, jn, lk, zVars>>

NextRegistry == Collection

SpecRegistry == InitRegistry /\ [][NextRegistry]_vars

(***************************************************************************)
(* Claims about declared relations (specification SpecRegistry).           *)
(***************************************************************************)
Obtained(name) == \E j \in DOMAIN reg.collections : reg.collections[j] = name

\* C23: for every field that declares a relation, once the source and the
\* target collection have both been obtained, getRelation finds under
\* '<collection>_<field>_<target>' a relation with that source field, the
\* target field id, the declared cardinality and delete policy, and
\* listRelations holds the name.
C23_DeclaredRelationsAreDefined ==
    \A k \in DOMAIN RelationFields :
       LET f == RelationFields[k]
           name == f.collection \o "_" \o f.field \o "_" \o f.target
           r == getRelation(reg.relations, name)
       IN  (~IsNull(reg.schemas[k]) /\ Obtained(f.collection)
               /\ Obtained(f.target))
              => /\ ~IsNull(r)
                 /\ Get(r).sourceField = f.field
                 /\ Get(r).targetField = "id"
                 /\ Get(r).type = Get(reg.schemas[k]).type
                 /\ Get(reg.schemas[k]).onDelete # "undefined"
                        => Get(r).onDelete = Get(reg.schemas[k]).onDelete
                 /\ \E i \in DOMAIN reg.relations :
                        listRelations(reg.relations)[i] = name

(***************************************************************************)
(* Relation.innerJoin and leftJoin (SpecJoin).  The source records carry   *)
(* the foreign key userId, the target records only their id.  Each await   *)
(* of a join is a point where calls of other callers run.                  *)
(***************************************************************************)
JoinKinds == {"innerJoin", "leftJoin"}

\* The ids stored in a collection.
IdsOf(bt) == {toArray(bt)[i].key : i \in DOMAIN toArray(bt)}

\* targetCollection.findByField("id", value): no index covers the field id,
\* so the call falls back to first(record => record.id === value).
RECURSIVE firstWithId(_, _, _)
firstWithId(entries, value, i) ==
    IF i > Len(entries) THEN Null
    ELSE IF entries[i].value.id = value THEN Some(entries[i].value)
         ELSE firstWithId(entries, value, i + 1)

findByFieldId(bt, value) == firstWithId(toArray(bt), value, 1)

\* Whether the rows produced so far are those a join over the target ids T
\* would have produced for their source records.
RowsReflect(results, T) ==
    \A k \in DOMAIN results :
       (~IsNull(results[k].joined)) = (results[k].userId \in T)

NoJoin == [op |-> "none", rows |-> 0, torn |-> FALSE]

InitJoin ==
    /\ jn = [source |-> BTreeNew, target |-> BTreeNew, join |-> Null,
             last |-> NoJoin]
    /\ reg = Null
    /\ lk = Null
    /\ ZIdle
    /\ XIdle
    /\ ColIdle
    /\ BTreeIdle
    /\ StIdle

\* A write to the target collection while a join is in flight: the new
\* target state joins the states the rows so far may reflect.
TargetWrote(join, bt) ==
    IF IsNull(join) THEN join
    ELSE Some([Get(join) EXCEPT
                  !.cands = IF RowsReflect(Get(join).results, IdsOf(bt))
                            THEN @ \cup {IdsOf(bt)} ELSE @])

\* sourceCollection.add({userId: t}), uuid() returning a fresh id.
JoinSourceAdd ==
    /\ jn.source.size < MaxRecords
    /\ \E id \in Ids \ IdsOf(jn.source), t \in Ids :
          jn' = [jn EXCEPT !.source = addTo(@, id, [userId |-> t]),
                           !.last = NoJoin]
    /\ UNCHANGED <<btVars, colVars, stVars, xVars, reg, lk, zVars>>

\* targetCollection.add({}), uuid() returning a fresh id.
JoinTargetAdd ==
    /\ jn.target.size < MaxRecords
    /\ \E id \in Ids \ IdsOf(jn.target) :
          \E bt \in {addTo(jn.target, id, <<>>)} :
              jn' = [jn EXCEPT !.target = bt,
                               !.join = TargetWrote(@, bt),
                               !.last = NoJoin]
    /\ UNCHANGED <<btVars, colVars, stVars, xVars, reg, lk, zVars>>

\* targetCollection.remove(id) of a stored record.
JoinTargetRemove ==
    /\ \E id \in IdsOf(jn.target) :
          \E r \in {removeIn(jn.target, <<>>, id)} :
              jn' = [jn EXCEPT !.target = r.btree,
                               !.join = TargetWrote(@, r.btree),
                               !.last = NoJoin]
    /\ UNCHANGED <<btVars, colVars, stVars, xVars, reg, lk, zVars>>

\* innerJoin() / leftJoin() up to the end of `await sourceCollection.all()`.
\* cands is history: the target states, among those the target has had since
\* the call began, that every row so far reflects.
JoinStart ==
    /\ IsNull(jn.join)
    /\ jn.source.size > 0
    /\ \E kind \in JoinKinds :
          jn' = [jn EXCEPT
                    !.join = Some([kind |-> kind,
                                   sourceRecords |->
                                       [i \in DOMAIN toArray(jn.source) |->
                                           toArray(jn.source)[i].value],
                                   i |-> 1,
                                   results |-> <<>>,
                                   cands |-> {IdsOf(jn.target)}]),
                    !.last = NoJoin]
    /\ UNCHANGED <<btVars, colVars, stVars, xVars, reg, lk, zVars>>

\* One turn of the loop: `await targetCollection.findByField(targetField,
\* foreignKeyValue)` and the push of the row.
JoinLookup ==
    /\ ~IsNull(jn.join)
    /\ Get(jn.join).i <= Len(Get(jn.join).sourceRecords)
    /\ LET j == Get(jn.join)
           sourceRecord == j.sourceRecords[j.i]
           targetRecord == findByFieldId(jn.target, sourceRecord.data["userId"])
           row == [id |-> sourceRecord.id,
                   userId |-> sourceRecord.data["userId"],
                   joined |-> targetRecord]
           results == IF j.kind = "innerJoin" /\ IsNull(targetRecord)
                      THEN j.results
                      ELSE Append(j.results, row)
       IN  jn' = [jn EXCEPT
                     !.join = Some([j EXCEPT
                                       !.i = @ + 1,
                                       !.results = results,
                                       !.cands = {T \in @ :
                                                     RowsReflect(results, T)}]),
                     !.last = NoJoin]
    /\ UNCHANGED <<btVars, colVars, stVars, xVars, reg, lk, zVars>>

\* `return results`.  last.torn tells that no state the target collection
\* had during the call is reflected by all the rows returned.
JoinReturn ==
    /\ ~IsNull(jn.join)
    /\ Get(jn.join).i > Len(Get(jn.join).sourceRecords)
    /\ jn' = [jn EXCEPT
                 !.join = Null,
                 !.last = [op |-> Get(jn.join).kind,
                           rows |-> Len(Get(jn.join).results),
                           torn |-> Get(jn.join).cands = {}]]
    /\ UNCHANGED <<btVars, colVars, stVars, xVars, reg, lk, zVars>>

NextJoin ==
    \/ JoinSourceAdd
    \/ JoinTargetAdd
    \/ JoinTargetRemove
    \/ JoinStart
    \/ JoinLookup
    \/ JoinReturn

SpecJoin == InitJoin /\ [][NextJoin]_vars

(***************************************************************************)
(* Claims about joins (specification SpecJoin).                            *)
(***************************************************************************)
\* C24: the rows one innerJoin() or leftJoin() call returns all reflect one
\* state the target collection had during the call, whatever adds and
\* removes on the target collection ran meanwhile.
C24_JoinRowsReflectOneTargetState ==
    jn.last.op \in JoinKinds => ~jn.last.torn

(***************************************************************************)
(* MockCollection and its mutex (SpecLock).  Every public method is        *)
(*   const release = await this.mutex.acquire();                           *)
(*   try { body } finally { release(); }                                   *)
(* with a body that has no await.  A call in flight is a task: waiting for *)
(* the mutex, inside (it holds the mutex and its body is about to run), or *)
(* done (its promise is settled).  The collection has the fields email and *)
(* tag and a unique index on email.                                        *)
(***************************************************************************)
MaxTasks == 2     \* calls in flight at the same time
MaxIssued == 2    \* SpecLock follows the collection for this many calls

Tasks == 1..MaxTasks

\* The values add() is called with: valid ones with distinct emails, and
\* one that fails validation.
LockInputs ==
    [i \in 1..(MaxTasks + 1) |->
        IF i <= MaxTasks THEN [email |-> i, tag |-> 1] ELSE [tag |-> 1]]

\* The configurations createIndex() is called with; the name of the first
\* is in use from the start.
LockIndexConfigs ==
    <<[name |-> "email_idx", field |-> "tag", unique |-> FALSE],
      [name |-> "tag_idx", field |-> "tag", unique |-> FALSE]>>

ReadKinds == {"all", "findByField", "first", "findByRange"}

\* The calls caller t makes: the method and the position of its argument.
\* Caller t adds its own valid value or the invalid one.
LockOps(t) ==
    {[kind |-> "add", arg |-> i] : i \in {t, MaxTasks + 1}}
       \cup {[kind |-> "remove", arg |-> id] : id \in Ids}
       \cup {[kind |-> "createIndex", arg |-> i] : i \in DOMAIN LockIndexConfigs}
       \cup {[kind |-> k, arg |-> 1] : k \in {"all", "findByField", "findByRange"}}
       \cup {[kind |-> "findByField", arg |-> MaxTag + 1]}

\* Mutant of Mutex_acquire: the promise resolves whether or not the mutex
\* is held.
Mutex_acquire_NoWait(locked, queue, t) ==
    [locked |-> TRUE, queue |-> queue, granted |-> TRUE]

\* Mutex.acquire() by task t: granted at once when the mutex is free,
\* queued behind the earlier waiters otherwise.
Mutex_acquire(locked, queue, t) ==
    IF locked
    THEN [locked |-> TRUE, queue |-> Append(queue, t), granted |-> FALSE]
    ELSE [locked |-> TRUE, queue |-> queue, granted |-> TRUE]

\* release(): the mutex passes to the first waiter, or becomes free.
Mutex_release(queue) ==
    IF queue = <<>>
    THEN [locked |-> FALSE, queue |-> queue, next |-> Null]
    ELSE [locked |-> TRUE, queue |-> Tail(queue), next |-> Some(Head(queue))]

\* Mutant of finallyRelease: release() only follows a body that returned.
finallyRelease_OnlyOnReturn(queue, threw) ==
    IF threw THEN [locked |-> TRUE, queue |-> queue, next |-> Null]
    ELSE Mutex_release(queue)

\* `finally { release(); }`: runs whether the body returned or threw.
finallyRelease(queue, threw) == Mutex_release(queue)

\* The end of add's body: it throws unless the record was stored.
addBody(r) ==
    [btree |-> r.btree, indexes |-> r.indexes, threw |-> r.outcome # "ok",
     wrote |-> r.outcome = "ok", again |-> FALSE, out |-> Null]

\* The end of remove's body: triggerModify() runs when a record was deleted.
removeBody(r) ==
    [btree |-> r.btree, indexes |-> r.indexes, threw |-> FALSE,
     wrote |-> r.result, again |-> FALSE, out |-> Null]

\* The body of a method between acquire and release, with id the
\* identifier uuid() returns: [btree, indexes, threw, wrote, again, out].
\* wrote tells that the call changed the records; again, that findByField
\* found no index and returns this.first(...), which acquires the mutex
\* anew; out is the record findByField or first() resolves to.
runBody(bt, idxs, kind, arg, id) ==
    IF kind = "add" THEN addBody(addIn(bt, idxs, id, LockInputs[arg]))
    ELSE IF kind = "remove" THEN removeBody(removeIn(bt, idxs, arg))
    ELSE IF kind = "createIndex"
    THEN [btree |-> bt,
          indexes |-> createIndex(bt, idxs, LockIndexConfigs[arg]).indexes,
          threw |-> createIndex(bt, idxs, LockIndexConfigs[arg]).threw,
          wrote |-> FALSE, again |-> FALSE, out |-> Null]
    ELSE [btree |-> bt, indexes |-> idxs,
          threw |-> kind = "findByRange"
                       /\ findByRangeIn(bt, idxs, "tag", arg, arg).threw,
          wrote |-> FALSE,
          again |-> kind = "findByField"
                       /\ IsNull(getIndexByField(idxs, "tag")),
          out |-> IF kind = "first" THEN first(bt, "tag", arg)
                  ELSE IF kind = "findByField"
                          /\ ~IsNull(getIndexByField(idxs, "tag"))
                  THEN findByFieldIn(bt, idxs, "tag", arg)
                  ELSE Null]

IdleTask ==
    [pc |-> "idle", kind |-> "none", arg |-> 0, threw |-> FALSE, floor |-> 0,
     stale |-> FALSE, afterFail |-> FALSE, out |-> Null]

InitLock ==
    /\ lk = [btree |-> BTreeNew,
             indexes |-> initializeAutoIndexes(
                             <<[field |-> "email", unique |-> TRUE]>>),
             locked |-> FALSE, queue |-> <<>>,
             tasks |-> [t \in Tasks |-> IdleTask],
             issued |-> 0, writes |-> 0, failed |-> FALSE]
    /\ reg = Null
    /\ jn = Null
    /\ ZIdle
    /\ XIdle
    /\ ColIdle
    /\ BTreeIdle
    /\ StIdle

\* A caller whose earlier call, if any, is settled calls a method: the call
\* runs up to `await this.mutex.acquire()`.  floor is the number of writes
\* completed when the call starts.
LockIssue(t) ==
    /\ lk.tasks[t].pc \in {"idle", "done"}
    /\ lk.issued < MaxIssued
    /\ \E op \in LockOps(t) :
          \E a \in {Mutex_acquire(lk.locked, lk.queue, t)} :
              lk' = [lk EXCEPT
                        !.issued = @ + 1,
                        !.locked = a.locked,
                        !.queue = a.queue,
                        !.tasks[t] = [pc |-> IF a.granted THEN "inside"
                                             ELSE "waiting",
                                      kind |-> op.kind, arg |-> op.arg,
                                      threw |-> FALSE, floor |-> lk.writes,
                                      stale |-> FALSE,
                                      afterFail |-> lk.failed,
                                      out |-> Null]]
    /\ UNCHANGED <<btVars, colVars, stVars, xVars, reg, jn, zVars>>

\* The tasks once the body of task t has run with outcome b and the mutex
\* has passed to next: t is settled, or waits again as first(); the task
\* next is resumed.
afterBody(tasks, t, b, next, writes) ==
    [u \in Tasks |->
        LET me == IF u # t THEN tasks[u]
                  ELSE IF b.again
                       THEN [tasks[u] EXCEPT !.pc = "waiting", !.kind = "first"]
                       ELSE [tasks[u] EXCEPT !.pc = "done", !.threw = b.threw,
                                             !.stale = writes < tasks[u].floor,
                                             !.out = b.out]
        IN  IF next = Some(u) THEN [me EXCEPT !.pc = "inside"] ELSE me]

\* The continuation of acquire: the body, the finally, and the hand-over of
\* the mutex to the next waiter.  stale tells that the body found fewer
\* writes completed than there were when the call started.
LockBody(t) ==
    /\ lk.tasks[t].pc = "inside"
    /\ \E id \in IF lk.tasks[t].kind = "add" THEN Ids ELSE {1} :
       \E b \in {runBody(lk.btree, lk.indexes, lk.tasks[t].kind,
                         lk.tasks[t].arg, id)} :
       \E r \in {finallyRelease(IF b.again THEN Append(lk.queue, t)
                                ELSE lk.queue, b.threw)} :
          lk' = [lk EXCEPT
                    !.btree = b.btree,
                    !.indexes = b.indexes,
                    !.locked = r.locked,
                    !.queue = r.queue,
                    !.writes = IF b.wrote THEN @ + 1 ELSE @,
                    !.failed = @ \/ b.threw,
                    !.tasks = afterBody(@, t, b, r.next, lk.writes)]
    /\ UNCHANGED <<btVars, colVars, stVars, xVars, reg, jn, zVars>>

NextLock ==
    \/ \E t \in Tasks : LockIssue(t)
    \/ \E t \in Tasks : LockBody(t)

SpecLock == InitLock /\ [][NextLock]_vars

\* The event loop runs the continuation of every resolved acquire.
SpecLockFair == SpecLock /\ WF_vars(\E t \in Tasks : LockBody(t))

AddTasks == {t \in Tasks : lk.tasks[t].kind = "add"}

\* The calls that were passed a value the schema accepts.
Accepted == {t \in AddTasks : validateRecord(LockInputs[lk.tasks[t].arg])}

\* All the calls made so far are adds, one per caller, each issued before
\* any of them had run, and all are settled.
ConcurrentAddsDone ==
    /\ lk.issued = MaxTasks
    /\ AddTasks = Tasks
    /\ \A t \in Tasks : lk.tasks[t].pc = "done" /\ lk.tasks[t].floor = 0

\* C27: when MaxTasks add calls are issued concurrently, every call with an
\* acceptable value completes without error and the collection holds exactly
\* one record per such call, with the value passed to it, and no other.
C27_ConcurrentAddsAllStored ==
    ConcurrentAddsDone
       => /\ \A t \in Tasks : lk.tasks[t].threw <=> t \notin Accepted
          /\ lk.btree.size = Cardinality(Accepted)
          /\ Len(toArray(lk.btree)) = Cardinality(Accepted)
          /\ \A t \in Accepted :
                Cardinality({i \in DOMAIN toArray(lk.btree) :
                                toArray(lk.btree)[i].value.data
                                   = LockInputs[lk.tasks[t].arg]}) = 1

\* C27 witness: every concurrent add was accepted and is settled, and two of
\* the records they stored have the same id.
C27_Witness ==
    /\ ConcurrentAddsDone
    /\ Accepted = Tasks
    /\ \E i, j \in DOMAIN toArray(lk.btree) :
          i # j /\ toArray(lk.btree)[i].key = toArray(lk.btree)[j].key

\* The positions in toArray(bt) of the records whose tag is value.
Matching(bt, value) ==
    {i \in DOMAIN toArray(bt) :
        /\ "tag" \in DOMAIN toArray(bt)[i].value.data
        /\ toArray(bt)[i].value.data.tag = value}

\* out is what a scan for the tag value over bt has to deliver: a stored
\* record with that tag and with the least id among those, or Null when no
\* stored record has the tag.
IsFirstMatch(bt, value, out) ==
    IF Matching(bt, value) = {} THEN IsNull(out)
    ELSE \E i \in Matching(bt, value) :
            /\ out = Some(toArray(bt)[i].value)
            /\ \A j \in Matching(bt, value) :
                  toArray(bt)[i].key <= toArray(bt)[j].key

\* The calls that are findByField calls, before or after they fell back to
\* first().
Lookups == {t \in Tasks : lk.tasks[t].kind \in {"findByField", "first"}}

\* A step in which the fallback first() of caller t delivers its result.
FallbackDelivers(t) ==
    /\ lk.tasks[t].kind = "first"
    /\ lk.tasks[t].pc = "inside"
    /\ lk'.tasks[t].pc = "done"

\* C38: a findByField call on a field without index always completes, does
\* not raise an error and delivers the first stored record, in id order,
\* whose field equals the value, or Null when there is none; the fallback
\* first() it issues while it holds the lock does not block, and the lock is
\* free once no call is waiting for it or holds it.
C38_FallbackCompletes ==
    /\ \A t \in Tasks :
          (t \in Lookups /\ lk.tasks[t].pc \in {"waiting", "inside"})
             ~> (lk.tasks[t].pc = "done")
    /\ [][\A t \in Tasks :
             FallbackDelivers(t)
                => /\ ~lk'.tasks[t].threw
                   /\ IsFirstMatch(lk.btree, lk.tasks[t].arg,
                                   lk'.tasks[t].out)]_vars
    /\ []((\A t \in Tasks : lk.tasks[t].pc \in {"idle", "done"})
             => (~lk.locked /\ lk.queue = <<>>))

\* C38 witness: a findByField call that fell back to first() has delivered
\* a stored record, and the lock is free.
C38_Witness ==
    /\ ~lk.locked
    /\ \E t \in Tasks :
          /\ lk.tasks[t].kind = "first"
          /\ lk.tasks[t].pc = "done"
          /\ ~IsNull(lk.tasks[t].out)

(***************************************************************************)
(* Claims about initialize() and the views (SpecRoundTrip).                *)
(***************************************************************************)
\* C28: initialize() on a file whose magic word has been altered raises an
\* error to its caller and leaves the manager without collections and
\* records.
C28_CorruptFileRaises ==
    (rt.phase = "reopened" /\ DatabaseFile_deserializeThrows(Get(rt.file))
        /\ ~Get(rt.opened).touched)
       => /\ Get(rt.opened).raised
          /\ Get(rt.opened).records = <<>>
          /\ Get(rt.opened).indexes = <<>>

\* A step that is the second initialize() call on the reopened manager.
SecondInitialize ==
    /\ rt.phase = "reopened"
    /\ rt'.phase = "reopened"
    /\ ~Get(rt.opened).again
    /\ Get(rt'.opened).again

\* C29: a second initialize() call, made after the first has completed and
\* after any adds and removes, loads nothing: the schemas, the records and
\* the indexes of the manager are what they were before the call.
C29_InitializeIsIdempotent ==
    [][SecondInitialize
          => /\ Get(rt'.opened).records = Get(rt.opened).records
             /\ Get(rt'.opened).indexes = Get(rt.opened).indexes
             /\ rt'.given = rt.given
             /\ rt'.schema = rt.schema]_vars

\* C29 witness: the second call has been made on a manager whose records
\* were changed after the first call and differ from those in the file.
C29_Witness ==
    /\ rt.phase = "reopened"
    /\ Get(rt.opened).again
    /\ Get(rt.opened).touched
    /\ SetOf(Get(rt.opened).records) # SetOf(rt.records)

\* The records the file holds for the collection.
RecordsInFile ==
    BinaryStorage_deserialize(Get(rt.file).collections[1].buffer).records

\* C30: no view that add, get, all, find, first, findByField or findByRange
\* returns has a field marked hidden; allInternal returns, and the file
\* commitAll writes holds, every record with its hidden fields and their
\* stored values.
C30_HiddenFieldsOnlyInternal ==
    /\ rt.out.method \notin {"none", "allInternal"}
          => \A i \in DOMAIN rt.out.views :
                /\ DOMAIN rt.out.views[i].data
                      \cap extractHiddenFields(rt.schema) = {}
                /\ \E r \in DOMAIN rt.records :
                      /\ rt.records[r].id = rt.out.views[i].id
                      /\ \A f \in DOMAIN rt.out.views[i].data :
                            rt.out.views[i].data[f] = rt.records[r].data[f]
    /\ rt.out.method = "allInternal" => rt.out.views = rt.records
    /\ (rt.phase = "committed" /\ Get(rt.file).magic = "MODB")
          => RecordsInFile = rt.records

\* C30 witness: all() has returned a view of a record that has a hidden
\* field.
C30_Witness ==
    /\ rt.out.method = "all"
    /\ rt.out.views # <<>>
    /\ extractHiddenFields(rt.schema) # {}

(***************************************************************************)
(* One MockCollection called method by method (SpecEngine): add, remove,   *)
(* update, findByRange, onModify and offModify, each call run to its end   *)
(* before the next.  The schema declares email (unique, required) and tag  *)
(* (not required); tag is indexed in some of the schemas tried.  eng is    *)
(* [btree, indexes, callbacks, calls, last]; last tells of the last call:  *)
(* its arguments, its outcome, whether the primary map and the indexes     *)
(* are as before it (same), and how often each callback ran (invoked).     *)
(***************************************************************************)
MaxEngCalls == 2   \* SpecEngine follows the collection for this many calls

Callbacks == {"c1", "c2"}

\* The fields the schema marks `required: true`.
Required == {"email"}

\* The schemas tried: email unique; tag without an index, or indexed, in
\* either declaration order.
EngSchemas ==
    Schemas \cup {<<[field |-> "email", unique |-> TRUE]>>}

\* The values add() is called with: any assignment of some of the declared
\* fields, and assignments of all of them and of the undeclared field extra.
EngInputs ==
    Inputs \cup {[f \in Fields \cup {"extra"} |->
                     IF f = "email" THEN e ELSE 1] : e \in Vals}

\* The values update() is called with: a new email.
Partials == {[email |-> e] : e \in Vals}

\* The public members of MockCollection that a caller can invoke.
MockCollectionMethods ==
    {"init", "add", "all", "allInternal", "find", "first", "get", "remove",
     "filter", "createIndex", "dropIndex", "listIndexes", "getIndexStats",
     "findByField", "findByRange", "getSchema", "getStats", "innerJoin",
     "leftJoin", "getRelated", "onModify", "offModify"}

\* collection[method](...): a property the class does not define is
\* undefined, and calling it throws a TypeError.
callThrowsTypeError(method) == method \notin MockCollectionMethods

onModify(callbacks, cb) == Append(callbacks, cb)

offModify(callbacks, cb) == SelectSeq(callbacks, LAMBDA x : x # cb)

\* triggerModify: every element of onModifyCallbacks is called; the result
\* counts the calls of each callback.
triggerModify(callbacks) ==
    [cb \in Callbacks |->
        Cardinality({i \in DOMAIN callbacks : callbacks[i] = cb})]

NoInvoked == [cb \in Callbacks |-> 0]

NoEngCall ==
    [op |-> "none", outcome |-> "none", id |-> 0, value |-> <<>>,
     field |-> "none", same |-> TRUE, taken |-> FALSE, existed |-> FALSE,
     invoked |-> NoInvoked, results |-> <<>>]

\* Some stored record has this email.
EmailTaken(bt, value) ==
    /\ "email" \in DOMAIN value
    /\ \E i \in DOMAIN toArray(bt) :
          toArray(bt)[i].value.data["email"] = value["email"]

InitEngine ==
    /\ \E schema \in EngSchemas :
          eng = [btree |-> BTreeNew, indexes |-> initializeAutoIndexes(schema),
                 callbacks |-> <<>>, calls |-> 0, last |-> NoEngCall]
    /\ bm = Null
    /\ cr = Null
    /\ ai = Null
    /\ tw = Null
    /\ YIdle
    /\ XIdle
    /\ ColIdle
    /\ BTreeIdle
    /\ StIdle

\* add(value), with id the identifier uuid() returns: triggerModify() runs
\* after the insert, so not when the constructor or addToIndexes threw.
EngAdd ==
    /\ eng.calls < MaxEngCalls
    /\ eng.btree.size < MaxRecords
    /\ \E id \in Ids, value \in EngInputs :
       \E r \in {addIn(eng.btree, eng.indexes, id, value)} :
          eng' = [eng EXCEPT
                     !.btree = r.btree,
                     !.indexes = r.indexes,
                     !.calls = @ + 1,
                     !.last = [NoEngCall EXCEPT
                                  !.op = "add",
                                  !.outcome = r.outcome,
                                  !.id = id,
                                  !.value = value,
                                  !.taken = EmailTaken(eng.btree, value),
                                  !.existed = ~IsNull(search(eng.btree, id)),
                                  !.same = Entries(r.btree, r.indexes)
                                              = Entries(eng.btree, eng.indexes),
                                  !.invoked = IF r.outcome = "ok"
                                              THEN triggerModify(eng.callbacks)
                                              ELSE NoInvoked]]
    /\ UNCHANGED <<btVars, colVars, stVars, xVars, yVars, bm, cr, ai, tw>>

\* remove(id): triggerModify() runs when the record was deleted.
EngRemove ==
    /\ eng.calls < MaxEngCalls
    /\ \E id \in Ids :
       \E r \in {removeIn(eng.btree, eng.indexes, id)} :
          eng' = [eng EXCEPT
                     !.btree = r.btree,
                     !.indexes = r.indexes,
                     !.calls = @ + 1,
                     !.last = [NoEngCall EXCEPT
                                  !.op = "remove",
                                  !.outcome = IF r.result THEN "true" ELSE "false",
                                  !.id = id,
                                  !.existed = ~IsNull(search(eng.btree, id)),
                                  !.same = Entries(r.btree, r.indexes)
                                              = Entries(eng.btree, eng.indexes),
                                  !.invoked = IF r.result
                                              THEN triggerModify(eng.callbacks)
                                              ELSE NoInvoked]]
    /\ UNCHANGED <<btVars, colVars, stVars, xVars, yVars, bm, cr, ai, tw>>

\* users.update(id, partial), as the TypedMockCollection interface and the
\* README offer it: the object is a MockCollection, which has no such
\* member.
EngUpdate ==
    /\ eng.calls < MaxEngCalls
    /\ \E id \in Ids, partial \in Partials :
          eng' = [eng EXCEPT
                     !.calls = @ + 1,
                     !.last = [NoEngCall EXCEPT
                                  !.op = "update",
                                  !.outcome = IF callThrowsTypeError("update")
                                              THEN "TypeError" ELSE "ok",
                                  !.id = id,
                                  !.value = partial,
                                  !.taken = EmailTaken(eng.btree, partial),
                                  !.existed = ~IsNull(search(eng.btree, id))]]
    /\ UNCHANGED <<btVars, colVars, stVars, xVars, yVars, bm, cr, ai, tw>>

\* findByRange(field, min, max) on a declared field.
EngFindByRange ==
    /\ eng.calls < MaxEngCalls
    /\ \E field \in Fields :
       \E min \in ValuesOf(field), max \in ValuesOf(field) :
       \E r \in {findByRangeIn(eng.btree, eng.indexes, field, min, max)} :
          eng' = [eng EXCEPT
                     !.calls = @ + 1,
                     !.last = [NoEngCall EXCEPT
                                  !.op = "findByRange",
                                  !.outcome = IF r.threw THEN "missing_index"
                                              ELSE "ok",
                                  !.field = field,
                                  !.results = r.results]]
    /\ UNCHANGED <<btVars, colVars, stVars, xVars, yVars, bm, cr, ai, tw>>

\* onModify(callback): the callback is pushed, also when it is subscribed.
EngOnModify ==
    /\ eng.calls < MaxEngCalls
    /\ \E cb \in Callbacks :
          eng' = [eng EXCEPT
                     !.callbacks = onModify(@, cb),
                     !.calls = @ + 1,
                     !.last = [NoEngCall EXCEPT !.op = "onModify"]]
    /\ UNCHANGED <<btVars, colVars, stVars, xVars, yVars, bm, cr, ai, tw>>

\* offModify(callback).
EngOffModify ==
    /\ eng.calls < MaxEngCalls
    /\ \E cb \in Callbacks :
          eng' = [eng EXCEPT
                     !.callbacks = offModify(@, cb),
                     !.calls = @ + 1,
                     !.last = [NoEngCall EXCEPT !.op = "offModify"]]
    /\ UNCHANGED <<btVars, colVars, stVars, xVars, yVars, bm, cr, ai, tw>>

NextEngine ==
    \/ EngAdd
    \/ EngRemove
    \/ EngUpdate
    \/ EngFindByRange
    \/ EngOnModify
    \/ EngOffModify

SpecEngine == InitEngine /\ [][NextEngine]_vars

(***************************************************************************)
(* Claims about the methods of one collection (SpecEngine).                *)
(***************************************************************************)
\* The last call was add(value) with a value of declared fields that has
\* every required field, whose email no stored record has, under a fresh id.
AddOfDeclared ==
    /\ eng.last.op = "add"
    /\ Required \subseteq DOMAIN eng.last.value
    /\ DOMAIN eng.last.value \subseteq Fields
    /\ ~eng.last.taken
    /\ ~eng.last.existed

\* The indexes on the field hold no entry that maps to the id.
NoEntryFor(idxs, field, id) ==
    \A i \in DOMAIN idxs :
        idxs[i].field = field
           => \A j \in DOMAIN toArray(idxs[i].btree) :
                 toArray(idxs[i].btree)[j].value # id

\* C31: add accepts a value that omits a field not marked required: the
\* call succeeds, the stored record leaves the field absent, and the
\* indexes on the field receive no entry for the record.
C31_OmittedOptionalFieldAccepted ==
    (AddOfDeclared /\ "tag" \notin DOMAIN eng.last.value)
       => /\ eng.last.outcome = "ok"
          /\ ~IsNull(search(eng.btree, eng.last.id))
          /\ "tag" \notin DOMAIN Get(search(eng.btree, eng.last.id)).data
          /\ NoEntryFor(eng.indexes, "tag", eng.last.id)

\* C32: add rejects, with a schema error and with no change to the primary
\* map or any index, every value that contains a field the schema does not
\* declare.
C32_UndeclaredFieldRejected ==
    (eng.last.op = "add" /\ ~(DOMAIN eng.last.value \subseteq Fields))
       => (eng.last.outcome = "invalid" /\ eng.last.same)

\* C33: the collection offers update(id, partial): on an existing id the
\* call succeeds, or fails because the new value would duplicate a unique
\* value; it leaves the record holding partial's values unless it failed.
C33_UpdateIsOffered ==
    (eng.last.op = "update" /\ eng.last.existed)
       => /\ eng.last.outcome \in {"ok", "unique_violation"}
          /\ eng.last.outcome = "ok"
                => \E i \in DOMAIN toArray(eng.btree) :
                      /\ toArray(eng.btree)[i].key = eng.last.id
                      /\ \A f \in DOMAIN eng.last.value :
                            toArray(eng.btree)[i].value.data[f]
                               = eng.last.value[f]

\* C34: each successful add and each successful remove invokes every
\* subscribed onModify callback exactly once (and no other); an add that
\* fails and a remove of an absent id invoke no callback and leave the
\* collection unchanged.
C34_CallbacksOncePerModification ==
    eng.last.op \in {"add", "remove"}
       => IF eng.last.outcome \in {"ok", "true"}
          THEN \A cb \in Callbacks :
                  eng.last.invoked[cb]
                     = IF \E i \in DOMAIN eng.callbacks : eng.callbacks[i] = cb
                       THEN 1 ELSE 0
          ELSE (\A cb \in Callbacks : eng.last.invoked[cb] = 0) /\ eng.last.same

\* The field of the last call has an index.
HasIndexOn(field) == \E i \in DOMAIN eng.indexes : eng.indexes[i].field = field

\* The indexes on the field of the last call hold no entry.
IndexesEmptyOn(field) ==
    \A i \in DOMAIN eng.indexes :
        eng.indexes[i].field = field => toArray(eng.indexes[i].btree) = <<>>

\* C35: findByRange on a field that has no index fails with a missing-index
\* error and leaves the records and indexes unchanged; on a field that has
\* an index but no entries it returns the empty list.
C35_FindByRangeNeedsIndex ==
    eng.last.op = "findByRange"
       => /\ eng.last.same
          /\ (eng.last.outcome = "missing_index") = ~HasIndexOn(eng.last.field)
          /\ (HasIndexOn(eng.last.field) /\ IndexesEmptyOn(eng.last.field))
                => eng.last.results = <<>>

\* findByRange failed for want of an index while records were stored.
C35_Witness ==
    /\ eng.last.op = "findByRange"
    /\ eng.last.outcome = "missing_index"
    /\ eng.btree.size > 0

(***************************************************************************)
(* A BTree of some order beside the ordered map it implements              *)
(* (SpecBTreeMap).  bm is [tree, order, keys, last]: the tree, the order   *)
(* its constructor was given, the keys inserted and not since deleted,     *)
(* and the last call.  Only keys that are not in the tree are inserted.    *)
(***************************************************************************)
\* The orders tried: from the minimum the constructor accepts.
Orders == 3..TreeOrder

NoTreeCall ==
    [op |-> "none", key |-> 0, present |-> FALSE, result |-> FALSE,
     threw |-> FALSE]

InitBTreeMap ==
    /\ \E order \in Orders :
          bm = [tree |-> BTreeNew, order |-> order, keys |-> {},
                last |-> NoTreeCall]
    /\ eng = Null
    /\ cr = Null
    /\ ai = Null
    /\ tw = Null
    /\ YIdle
    /\ XIdle
    /\ ColIdle
    /\ BTreeIdle
    /\ StIdle

\* insert(key, value) of a key the tree does not hold.  The run ends with
\* a call that threw.
MapInsert ==
    /\ ~bm.last.threw
    /\ Cardinality(bm.keys) < MaxEntries
    /\ \E k \in Keys \ bm.keys :
          bm' = [bm EXCEPT
                    !.tree = insert(@, k, ValueOf(k), bm.order),
                    !.keys = @ \cup {k},
                    !.last = [op |-> "insert", key |-> k, present |-> FALSE,
                              result |-> TRUE, threw |-> FALSE]]
    /\ UNCHANGED <<btVars, colVars, stVars, xVars, yVars, eng, cr, ai, tw>>

\* delete(key) of any key: its result tells whether an entry was removed.
MapDeleteKey ==
    /\ ~bm.last.threw
    /\ \E k \in Keys :
       \E d \in {delete(bm.tree, k, bm.order)} :
          bm' = [bm EXCEPT
                    !.tree = d.tree,
                    !.keys = @ \ {k},
                    !.last = [op |-> "delete", key |-> k,
                              present |-> k \in bm.keys,
                              result |-> d.deleted, threw |-> d.threw]]
    /\ UNCHANGED <<btVars, colVars, stVars, xVars, yVars, eng, cr, ai, tw>>

NextBTreeMap == MapInsert \/ MapDeleteKey

SpecBTreeMap == InitBTreeMap /\ [][NextBTreeMap]_vars

(***************************************************************************)
(* Claims about the B-tree as an ordered map (SpecBTreeMap).               *)
(***************************************************************************)
\* The keys of toArray(), in the order it lists them.
KeysListed == [i \in DOMAIN toArray(bm.tree) |-> toArray(bm.tree)[i].key]

\* C36: for every order from 3 on, after any sequence of insert and delete
\* on distinct keys, no call has failed, search(k) returns k's value iff k
\* was inserted and not since deleted, toArray() lists exactly those keys
\* in ascending order, length() is their number, and delete told whether
\* the key was present.
C36_AgreesWithOrderedMap ==
    /\ ~bm.last.threw
    /\ \A k \in Keys :
          search(bm.tree, k) = IF k \in bm.keys THEN Some(ValueOf(k)) ELSE Null
    /\ Len(KeysListed) = Cardinality(bm.keys)
    /\ {KeysListed[i] : i \in DOMAIN KeysListed} = bm.keys
    /\ Ascending(toArray(bm.tree))
    /\ bm.tree.size = Cardinality(bm.keys)
    /\ (bm.last.op = "delete") => (bm.last.result = bm.last.present)

(***************************************************************************)
(* MockStorage.collection(name) called by several callers at once          *)
(* (SpecCollectionRace).  A call runs to its first await in one step and   *)
(* continues in a later one: after initialize(), whose databaseFile.load() *)
(* finds no file, or after persist.pull().  An engine is the number of     *)
(* the `new MockCollection` that made it.  cr is [initialized,             *)
(* isInitializing, collections, made, calls, callers]; a caller is [pc,    *)
(* name, collection, got]: where its call stands, the name it asked for,   *)
(* the engine its call created, and the engine its last call returned.     *)
(***************************************************************************)
MaxCallers == 2   \* callers of collection(name)
MaxGets == 3      \* SpecCollectionRace follows this many collection() calls

Callers == 1..MaxCallers

Names == {"users", "posts"}

IdleCaller == [pc |-> "idle", name |-> "users", collection |-> 0, got |-> Null]

InitCollectionRace ==
    /\ cr = [initialized |-> FALSE, isInitializing |-> FALSE,
             collections |-> [n \in Names |-> Null],
             made |-> [n \in Names |-> 0], calls |-> 0,
             callers |-> [c \in Callers |-> IdleCaller]]
    /\ eng = Null
    /\ bm = Null
    /\ ai = Null
    /\ tw = Null
    /\ YIdle
    /\ XIdle
    /\ ColIdle
    /\ BTreeIdle
    /\ StIdle

\* The part of collection(name) from `this.collections.has(name)` to the
\* await of persist.pull(), or to the return when there is none, run by
\* caller c on the manager m.
getOrCreate(m, c, name) ==
    IF ~IsNull(m.collections[name])
    THEN [m EXCEPT !.callers[c] = [pc |-> "returned", name |-> name,
                                   collection |-> 0,
                                   got |-> m.collections[name]]]
    ELSE IF ~m.isInitializing
    THEN [m EXCEPT !.made[name] = @ + 1,
                   !.callers[c] = [pc |-> "pull", name |-> name,
                                   collection |-> m.made[name] + 1,
                                   got |-> Null]]
    ELSE [m EXCEPT !.made[name] = @ + 1,
                   !.collections[name] = Some(m.made[name] + 1),
                   !.callers[c] = [pc |-> "returned", name |-> name,
                                   collection |-> m.made[name] + 1,
                                   got |-> Some(m.made[name] + 1)]]

\* collection(name) up to its first await: the first call of all starts
\* initialize(), which sets both flags and awaits the load of the file.
CollectionCall(c) ==
    /\ cr.callers[c].pc \in {"idle", "returned"}
    /\ cr.calls < MaxGets
    /\ \E name \in Names :
          IF ~cr.initialized /\ ~cr.isInitializing
          THEN cr' = [cr EXCEPT
                         !.calls = @ + 1,
                         !.initialized = TRUE,
                         !.isInitializing = TRUE,
                         !.callers[c] = [pc |-> "initialize", name |-> name,
                                         collection |-> 0, got |-> Null]]
          ELSE \E m \in {getOrCreate(cr, c, name)} :
                  cr' = [m EXCEPT !.calls = @ + 1]
    /\ UNCHANGED <<btVars, colVars, stVars, xVars, yVars, eng, bm, ai, tw>>

\* The load settled: initialize() finds no stored collection, clears
\* isInitializing in its finally, and the call that awaited it goes on.
InitializeReturns(c) ==
    /\ cr.callers[c].pc = "initialize"
    /\ cr' = getOrCreate([cr EXCEPT !.isInitializing = FALSE], c,
                         cr.callers[c].name)
    /\ UNCHANGED <<btVars, colVars, stVars, xVars, yVars, eng, bm, ai, tw>>

\* persist.pull() settled: the call enters its engine in the map, whatever
\* the map holds by now, and returns this.collections.get(name).
PullReturns(c) ==
    /\ cr.callers[c].pc = "pull"
    /\ cr' = [cr EXCEPT
                 !.collections[cr.callers[c].name] =
                     Some(cr.callers[c].collection),
                 !.callers[c].pc = "returned",
                 !.callers[c].got = Some(cr.callers[c].collection)]
    /\ UNCHANGED <<btVars, colVars, stVars, xVars, yVars, eng, bm, ai, tw>>

NextCollectionRace ==
    \/ \E c \in Callers : CollectionCall(c)
    \/ \E c \in Callers : InitializeReturns(c)
    \/ \E c \in Callers : PullReturns(c)

SpecCollectionRace == InitCollectionRace /\ [][NextCollectionRace]_vars

(***************************************************************************)
(* Claims about concurrent collection(name) calls (SpecCollectionRace).    *)
(***************************************************************************)
\* C37: for every interleaving of collection(name) calls, at most one
\* engine is instantiated for a name, and the engine a call returned is
\* the one the manager holds under that name, which commitAll and later
\* collection(name) calls see.
C37_OneEnginePerName ==
    /\ \A n \in Names : cr.made[n] <= 1
    /\ \A c \in Callers :
          cr.callers[c].pc = "returned"
             => cr.callers[c].got = cr.collections[cr.callers[c].name]

(***************************************************************************)
(* The indexes the MockCollection constructor creates (SpecAutoIndex).     *)
(* The constructor calls initializeAutoIndexes() without awaiting it: the  *)
(* call runs up to `await this.createIndex(...)` for the first declared    *)
(* field, whose acquire() takes the free mutex, and goes on one            *)
(* createIndex at a time when the event loop resumes it.  The engine is    *)
(* made by MockStorage.collection(name), which awaits persist.pull(), that *)
(* is init([]), unless the manager is initializing.  ai is [schema,        *)
(* isInitializing, btree, indexes, locked, queue, next, auto, pull,        *)
(* handed, adds, early]: next is the position of the declared field whose  *)
(* createIndex is under way; auto, pull and the pc of an add tell where    *)
(* the call stands; handed, that collection(name) has returned the engine; *)
(* early, that an add stored a record while a declared field had no index. *)
(***************************************************************************)
MaxAdds == 2   \* add calls the caller makes on the engine it was handed

AddCalls == 1..MaxAdds

\* The values passed to add: every field given, the tag the same.
AutoInputs == {[email |-> v, tag |-> 1] : v \in Vals}

IdleAdd == [pc |-> "idle", value |-> [email |-> 1, tag |-> 1],
            outcome |-> "none"]

InitAutoIndex ==
    /\ \E schema \in Schemas, isInitializing \in BOOLEAN :
          ai = [schema |-> schema, isInitializing |-> isInitializing,
                btree |-> BTreeNew, indexes |-> <<>>,
                locked |-> TRUE,
                queue |-> IF isInitializing THEN <<>>
                          ELSE <<[who |-> "pull", t |-> 0]>>,
                next |-> 1, auto |-> "inside",
                pull |-> IF isInitializing THEN "none" ELSE "waiting",
                handed |-> FALSE,
                adds |-> [t \in AddCalls |-> IdleAdd],
                early |-> FALSE]
    /\ eng = Null
    /\ bm = Null
    /\ cr = Null
    /\ tw = Null
    /\ YIdle
    /\ XIdle
    /\ ColIdle
    /\ BTreeIdle
    /\ StIdle

\* The engine a once the mutex has passed to the call next, if any.
resume(a, next) ==
    IF IsNull(next) THEN a
    ELSE IF Get(next).who = "auto" THEN [a EXCEPT !.auto = "inside"]
    ELSE IF Get(next).who = "pull" THEN [a EXCEPT !.pull = "inside"]
    ELSE [a EXCEPT !.adds[Get(next).t].pc = "inside"]

\* Every declared field has an index.
AllDeclaredIndexed(a) ==
    \A i \in DOMAIN a.schema :
       ~IsNull(getIndexByField(a.indexes, a.schema[i].field))

\* The body of the createIndex call initializeAutoIndexes awaits, and its
\* release; an error of createIndex is caught and logged.
AutoCreateIndex ==
    /\ ai.auto = "inside"
    /\ \E c \in {createIndex(ai.btree, ai.indexes,
                             extractIndexConfigs(ai.schema)[ai.next])} :
       \E r \in {Mutex_release(ai.queue)} :
          ai' = resume([ai EXCEPT !.indexes = c.indexes,
                                  !.locked = r.locked,
                                  !.queue = r.queue,
                                  !.auto = "between"], r.next)
    /\ UNCHANGED <<btVars, colVars, stVars, xVars, yVars, eng, bm, cr, tw>>

\* initializeAutoIndexes resumes after a createIndex: it calls createIndex
\* for the next declared field, up to the acquire, or sets
\* autoIndexesCreated.
AutoNextIndex ==
    /\ ai.auto = "between"
    /\ IF ai.next = Len(ai.schema)
       THEN ai' = [ai EXCEPT !.next = @ + 1, !.auto = "done"]
       ELSE \E a \in {Mutex_acquire(ai.locked, ai.queue,
                                    [who |-> "auto", t |-> 0])} :
               ai' = [ai EXCEPT !.next = @ + 1,
                                !.locked = a.locked,
                                !.queue = a.queue,
                                !.auto = IF a.granted THEN "inside"
                                         ELSE "waiting"]
    /\ UNCHANGED <<btVars, colVars, stVars, xVars, yVars, eng, bm, cr, tw>>

\* clearAll(): every index is emptied and stays.
clearAll(idxs) ==
    [i \in DOMAIN idxs |->
        Index([name |-> idxs[i].name, field |-> idxs[i].field,
               unique |-> idxs[i].unique])]

\* The body of init([]), which persist.pull() awaits, and its release.
PullInit ==
    /\ ai.pull = "inside"
    /\ \E r \in {Mutex_release(ai.queue)} :
          ai' = resume([ai EXCEPT !.btree = BTreeNew,
                                  !.indexes = clearAll(@),
                                  !.locked = r.locked,
                                  !.queue = r.queue,
                                  !.pull = "done"], r.next)
    /\ UNCHANGED <<btVars, colVars, stVars, xVars, yVars, eng, bm, cr, tw>>

\* collection(name) returns the engine: with no await after the
\* constructor while the manager is initializing, after pull() otherwise.
\* The continuation of initializeAutoIndexes after its first createIndex
\* is queued when that createIndex releases the mutex, before init([])
\* runs, so it comes before the continuation of `await persist.pull()`.
HandOver ==
    /\ ~ai.handed
    /\ \/ ai.isInitializing
       \/ ai.pull = "done" /\ ~(ai.auto = "between" /\ ai.next = 1)
    /\ ai' = [ai EXCEPT !.handed = TRUE]
    /\ UNCHANGED <<btVars, colVars, stVars, xVars, yVars, eng, bm, cr, tw>>

\* The caller calls add on the engine it was handed: up to the acquire.
AutoAddCall(t) ==
    /\ ai.handed
    /\ ai.adds[t].pc = "idle"
    /\ \E value \in AutoInputs :
       \E a \in {Mutex_acquire(ai.locked, ai.queue, [who |-> "add", t |-> t])} :
          ai' = [ai EXCEPT !.locked = a.locked,
                           !.queue = a.queue,
                           !.adds[t] = [pc |-> IF a.granted THEN "inside"
                                               ELSE "waiting",
                                        value |-> value, outcome |-> "none"]]
    /\ UNCHANGED <<btVars, colVars, stVars, xVars, yVars, eng, bm, cr, tw>>

\* The body of add, and its release.
AutoAddBody(t) ==
    /\ ai.adds[t].pc = "inside"
    /\ \E id \in Ids :
       \E b \in {addIn(ai.btree, ai.indexes, id, ai.adds[t].value)} :
       \E r \in {Mutex_release(ai.queue)} :
          ai' = resume([ai EXCEPT
                           !.btree = b.btree,
                           !.indexes = b.indexes,
                           !.locked = r.locked,
                           !.queue = r.queue,
                           !.early = @ \/ (b.outcome = "ok"
                                              /\ ~AllDeclaredIndexed(ai)),
                           !.adds[t].pc = "done",
                           !.adds[t].outcome = b.outcome], r.next)
    /\ UNCHANGED <<btVars, colVars, stVars, xVars, yVars, eng, bm, cr, tw>>

NextAutoIndex ==
    \/ AutoCreateIndex
    \/ AutoNextIndex
    \/ PullInit
    \/ HandOver
    \/ \E t \in AddCalls : AutoAddCall(t)
    \/ \E t \in AddCalls : AutoAddBody(t)

SpecAutoIndex == InitAutoIndex /\ [][NextAutoIndex]_vars

(***************************************************************************)
(* Claims about the indexes declared in the schema (SpecAutoIndex).        *)
(***************************************************************************)
\* Two stored records hold the same value of a field declared unique.
UniqueBypassed(a) ==
    \E i \in DOMAIN a.schema :
       /\ a.schema[i].unique
       /\ \E j, k \in DOMAIN toArray(a.btree) :
             /\ j # k
             /\ toArray(a.btree)[j].value.data[a.schema[i].field]
                   = toArray(a.btree)[k].value.data[a.schema[i].field]

\* C39: once collection(name) has handed the engine to the caller, every
\* field the schema declares indexed or unique has its index; no add stores
\* a record while a declared field has none; and no two stored records hold
\* the same value of a field declared unique.
C39_DeclaredIndexesBeforeAdd ==
    /\ ai.handed => AllDeclaredIndexed(ai)
    /\ ~ai.early
    /\ ~UniqueBypassed(ai)

(***************************************************************************)
(* Queries on two collections that differ in hidden values (SpecTwin).     *)
(* Both collections have the fields email and tag, of which hiddenFields   *)
(* are marked hidden; their records, as btree.toArray() lists them, have   *)
(* the same ids and the same values of the fields that are not hidden.     *)
(* tw is [hiddenFields, a, b, calls, last]: a and b are the records of the *)
(* two collections as views [id, data], last is the latest query with what *)
(* it gave on each.  A callback is record => record[field] === value.      *)
(***************************************************************************)
MaxQueries == 2   \* SpecTwin follows the two collections for this many queries

QueryCallbacks == [field : Fields, value : Vals \cup Tags]

\* The values of the records: every field given.
TwinInputs ==
    {d \in [Fields -> Vals \cup Tags] : \A f \in Fields : d[f] \in ValuesOf(f)}

\* callback(view): the field of the view is compared with the value.
callback(p, view) ==
    p.field \in DOMAIN view.data /\ view.data[p.field] = p.value

\* The views seq without the hidden fields.
visibleOf(seq, hiddenFields) ==
    [i \in DOMAIN seq |-> filterHidden(seq[i], hiddenFields)]

\* MockCollection.find(callback): .map(view).filter(callback).map(filterHidden).
find(records, hiddenFields, p) ==
    visibleOf(SelectSeq(records, LAMBDA v : callback(p, v)), hiddenFields)

\* MockCollection.first(callback) for any callback: the callback is passed
\* entry.value.view(); the view returned is filtered.
RECURSIVE firstOf(_, _, _, _)
firstOf(records, hiddenFields, p, i) ==
    IF i > Len(records) THEN Null
    ELSE IF callback(p, records[i])
    THEN Some(filterHidden(records[i], hiddenFields))
    ELSE firstOf(records, hiddenFields, p, i + 1)

\* MockCollection.filter(callback): the records the callback rejects are
\* removed.
filterIn(records, p) == SelectSeq(records, LAMBDA v : callback(p, v))

\* records with the view added at the place of its id.
insertView(records, view) ==
    SelectSeq(records, LAMBDA v : v.id < view.id)
       \o <<view>> \o SelectSeq(records, LAMBDA v : v.id > view.id)

\* The two collections differ in hidden values at most.
Twins == visibleOf(tw.a, tw.hiddenFields) = visibleOf(tw.b, tw.hiddenFields)

NoQuery == [op |-> "none", p |-> [field |-> "email", value |-> 1],
            a |-> <<>>, b |-> <<>>]

InitTwin ==
    /\ \E hiddenFields \in SUBSET Fields :
          tw = [hiddenFields |-> hiddenFields, a |-> <<>>, b |-> <<>>,
                calls |-> 0, last |-> NoQuery]
    /\ eng = Null
    /\ bm = Null
    /\ cr = Null
    /\ ai = Null
    /\ YIdle
    /\ XIdle
    /\ ColIdle
    /\ BTreeIdle
    /\ StIdle

\* add on both collections, of values that agree on the fields that are
\* not hidden; uuid() gives both records the same fresh id.
TwinAdd ==
    /\ Twins
    /\ Len(tw.a) < MaxRecords
    /\ \E id \in Ids, da \in TwinInputs, db \in TwinInputs :
          /\ \A i \in DOMAIN tw.a : tw.a[i].id # id
          /\ \A f \in Fields \ tw.hiddenFields : da[f] = db[f]
          /\ tw' = [tw EXCEPT !.a = insertView(@, [id |-> id, data |-> da]),
                              !.b = insertView(@, [id |-> id, data |-> db])]
    /\ UNCHANGED <<btVars, colVars, stVars, xVars, yVars, eng, bm, cr, ai>>

\* find(callback) on both collections.
TwinFind ==
    /\ Twins
    /\ tw.calls < MaxQueries
    /\ \E p \in QueryCallbacks :
          tw' = [tw EXCEPT !.calls = @ + 1,
                           !.last = [op |-> "find", p |-> p,
                                     a |-> find(tw.a, tw.hiddenFields, p),
                                     b |-> find(tw.b, tw.hiddenFields, p)]]
    /\ UNCHANGED <<btVars, colVars, stVars, xVars, yVars, eng, bm, cr, ai>>

\* first(callback) on both collections.
TwinFirst ==
    /\ Twins
    /\ tw.calls < MaxQueries
    /\ \E p \in QueryCallbacks :
          tw' = [tw EXCEPT !.calls = @ + 1,
                           !.last = [op |-> "first", p |-> p,
                                     a |-> firstOf(tw.a, tw.hiddenFields, p, 1),
                                     b |-> firstOf(tw.b, tw.hiddenFields, p, 1)]]
    /\ UNCHANGED <<btVars, colVars, stVars, xVars, yVars, eng, bm, cr, ai>>

\* filter(callback) on both collections; what it gives is what all()
\* returns afterwards.
TwinFilter ==
    /\ Twins
    /\ tw.calls < MaxQueries
    /\ \E p \in QueryCallbacks :
          tw' = [tw EXCEPT !.calls = @ + 1,
                           !.a = filterIn(@, p),
                           !.b = filterIn(@, p),
                           !.last = [op |-> "filter", p |-> p,
                                     a |-> visibleOf(filterIn(tw.a, p),
                                                     tw.hiddenFields),
                                     b |-> visibleOf(filterIn(tw.b, p),
                                                     tw.hiddenFields)]]
    /\ UNCHANGED <<btVars, colVars, stVars, xVars, yVars, eng, bm, cr, ai>>

NextTwin ==
    \/ TwinAdd
    \/ TwinFind
    \/ TwinFirst
    \/ TwinFilter

SpecTwin == InitTwin /\ [][NextTwin]_vars

(***************************************************************************)
(* Claims about queries and hidden fields (SpecTwin).                      *)
(***************************************************************************)
\* C40: on two collections whose records differ only in the values of
\* hidden fields, find(p), first(p) and filter(p) give the same visible
\* results, for every callback p.
C40_QueriesIgnoreHiddenValues ==
    tw.last.op \in {"find", "first", "filter"} => tw.last.a = tw.last.b

====
